---- MODULE Spec2Model ----
(***************************************************************************)
(* Model of the debate match server (Cardanoian/discussion-server).        *)
(*                                                                         *)
(* One room id is followed through its whole life: the lobby handlers of   *)
(* roomHandlers.ts, the match engine of battleHandlers.ts and the timer    *)
(* and forfeit code of timeUtils.ts.  Every socket handler, timer callback *)
(* and continuation after an `await` is one action.  Handlers are written  *)
(* as operators from a world record (all the variables) to a world record, *)
(* so that a handler's calls (addMessage, startTurnTimer,                  *)
(* handleTimeOverflow, handleAutomaticDefeat, ...) compose as in the code. *)
(*                                                                         *)
(* JavaScript objects are shared by reference.  The model keeps that:      *)
(*   - pl[u] is the Player object of user u in room.players; a MatchState  *)
(*     built by startBattleLogic refers to these objects (live = TRUE), a  *)
(*     MatchState built from a client's start_battle_logic payload owns    *)
(*     deserialised copies (live = FALSE);                                 *)
(*   - states is the heap of MatchState objects ever built for the room    *)
(*     id and battleStates is the index battleStates[roomId] points to     *)
(*     (0: no entry).  Closures (interval callbacks, suspended async       *)
(*     handlers) keep the index of the object they captured.               *)
(*                                                                         *)
(* The registry of rooms and the connections are followed apart, in the    *)
(* specification LobbySpec: rooms is the array `rooms` of roomHandlers.ts, *)
(* processingRequests and watchdogs are the two maps of the RequestManager *)
(* and calls holds the handler invocations that passed an `await`.  The    *)
(* specifications of one room leave these variables as construction left   *)
(* them.                                                                   *)
(***************************************************************************)
EXTENDS Integers, Sequences, FiniteSets, TLC

VARIABLES room, pl, states, battleStates, timeouts, tasks, profiles, battles,
          now, out, err, detours, scope,
          rooms, processingRequests, watchdogs, calls, connected

lobbyVars == <<rooms, processingRequests, watchdogs, calls, connected>>

vars == <<room, pl, states, battleStates, timeouts, tasks, profiles, battles,
          now, out, err, detours, scope,
          rooms, processingRequests, watchdogs, calls, connected>>

----------------------------------------------------------------------------
(* Bounds of the model *)

\* MatchState objects built for the room id (start and re-starts).
MaxMatches == 2
\* Suspended async chains (judge call, stats/save writes) in flight at once.
MaxTasks == 2
\* send_message is explored while stage is below this value.
MaxStage == 11
\* The clock is explored up to this value (ms since the model's origin).
MaxNow == 120002
\* Time passes during the turns of the stages up to this one.
MaxClockStage == 2
\* Events off the script of a plain match (see Commit) per run.
MaxDetours == 1
\* A MatchState built while an earlier one existed is followed up to this stage.
MaxRematchStage == 2
\* Overflow penalties counted per player (penaltyCount).
MaxPenaltyCount == 2
\* SnapSpec follows the match up to this stage, and its clock up to that one.
MaxSnapStage == 9
MaxSnapClockStage == 3
\* The clock of the specifications that follow one started match.
MaxMatchNow == 3000000
\* The latest time at which a speaker still sends in LiveSpec.
MaxSendNow == 120002
\* Suspended async chains in flight at once in those specifications.
MaxMatchTasks == 3
\* The clock of the specification of the ticker.
MaxTickerNow == 300000

(* Program constants *)
roundTimeLimit == 120000
totalTimeLimit == 300000
overtimeLimit == 30000
penaltyPoints == 3
maxPenaltyPoints == 18

(* Input sets *)
Users == {"u1", "u2", "u3"}
\* user_profile.is_admin
Admins == {"u3"}
\* u1 and u2 differ in name only: the room is created by u1 or by the admin,
\* and u2 joins a room u1 is in.
Creators == {"u1", "u3"}
Roles == {"player", "spectator", "referee"}
Positions == {"agree", "disagree"}
Texts == {"t1"}
\* The connections (socket ids) of the registry's specification
Sockets == {"s1", "s2", "s3"}
ClockSteps == {120001}
PointAmounts == {15, 18}
SecondAmounts == {180}
\* The scores a judge or a referee gives lie in 0..MaxScore.
MaxScore == 100
\* The score of the side that is not drawn.
FixedScore == 50
TickerSteps == {15000, 30001}
\* Milliseconds into a turn at which SnapSpec looks: within the first second,
\* the round limit to the millisecond, one past it, within the overtime
\* window and past it.
SnapElapsed == {500, 120000, 120001, 135000, 150002}
HumanScores == {[agree |-> 90, disagree |-> 50]}
JudgeVerdicts == {[agree |-> 60, disagree |-> 80, winner |-> "disagree"],
                  [agree |-> 60, disagree |-> 80, winner |-> "agree"]}

NoUser == "none"
Unset == "unset"
\* `undefined` for a timestamp field (Date.now() is never 0)
Undef == 0

----------------------------------------------------------------------------
(* Data *)

\* A Player object of room.players (types/battle.ts Player).
NewPlayer(role) ==
  [role |-> role, position |-> Unset, isReady |-> FALSE,
   discussionViewReady |-> FALSE]

\* No object: the user is not in room.players and no MatchState refers to it.
NoPlayer ==
  [role |-> "absent", position |-> Unset, isReady |-> FALSE,
   discussionViewReady |-> FALSE]

NoResult == [agree |-> -1, disagree |-> -1, winner |-> NoUser]

\* An emitted event; the fields an event does not carry hold fillers.
Ev(name, user, n, msgs, res) ==
  [ev |-> name, user |-> user, n |-> n, msgs |-> msgs, res |-> res, t |-> <<>>]

Emit(w, e) == [w EXCEPT !.out = Append(@, e)]
Emit0(w, name) == Emit(w, Ev(name, NoUser, 0, <<>>, NoResult))

\* The lobby's notifications (room_update, rooms_update, role_selected,
\* position_selected, player_list_updated) are sent but not recorded in out,
\* which follows the match engine's events, battle_start and the errors.
Notify(w, name) == w

Throw(w) == [w EXCEPT !.err = TRUE]

\* Index of the first TRUE of a sequence of booleans, 0 when none: the
\* element Array.prototype.find returns for a test mapped over an array.
FindIdx(hits) ==
  IF \E i \in 1..Len(hits) : hits[i]
    THEN CHOOSE i \in 1..Len(hits) : hits[i] /\ \A j \in 1..(i-1) : ~hits[j]
    ELSE 0

InSeq(s, x) == \E i \in 1..Len(s) : s[i] = x

Max(a, b) == IF a >= b THEN a ELSE b
Min(a, b) == IF a <= b THEN a ELSE b

\* Math.ceil(ms / 1000) for ms >= 0
CeilSec(ms) == (ms + 999) \div 1000

----------------------------------------------------------------------------
(* The world: all variables as one record, threaded through a handler *)

W == [room |-> room, pl |-> pl, states |-> states, battleStates |-> battleStates,
      timeouts |-> timeouts, tasks |-> tasks, profiles |-> profiles,
      battles |-> battles, now |-> now, out |-> <<>>, err |-> FALSE,
      detours |-> detours, scope |-> scope]

\* rooms.find((r) => r.roomId === roomId)
RoomFound(w) == w.room.listed

\* room.players.find((p) => p.userId === userId)
InRoom(w, u) == InSeq(w.room.players, u)

RolePlayers(w) == SelectSeq(w.room.players, LAMBDA u : w.pl[u].role = "player")

----------------------------------------------------------------------------
(* roomHandlers.ts *)

\* create_room, from the profile lookup's continuation on: the room object is
\* built, the creator attached and the room pushed to rooms.
create_room(w, u) ==
  LET role == IF u \in Admins THEN "referee" ELSE "player"
      w1 == [w EXCEPT !.room = [made |-> TRUE, listed |-> TRUE, players |-> <<u>>,
                                battleStarted |-> FALSE,
                                hasReferee |-> (role = "referee")],
                      !.pl[u] = NewPlayer(role)]
  IN Notify(w1, "rooms_update")

join_room(w, u) ==
  IF RoomFound(w) /\ ~w.room.battleStarted
    THEN LET playerCount == Len(RolePlayers(w))
             role == IF playerCount < 2 THEN "player" ELSE "spectator"
             w1 == IF InRoom(w, u)
                     THEN w
                     ELSE [w EXCEPT !.room.players = Append(@, u),
                                    !.pl[u] = NewPlayer(role)]
         IN Notify(Notify(w1, "room_update"), "rooms_update")
    ELSE Emit0(w, "join_error")

player_ready(w, u) ==
  IF RoomFound(w) /\ InRoom(w, u)
    THEN LET w1 == Notify([w EXCEPT !.pl[u].isReady = ~@], "room_update")
             players == RolePlayers(w1)
             readyPlayers == SelectSeq(players, LAMBDA p : w1.pl[p].isReady)
         IN IF Len(players) >= 2 /\ Len(readyPlayers) >= 2
              THEN Notify(Emit0([w1 EXCEPT !.room.battleStarted = TRUE],
                                "battle_start"), "rooms_update")
              ELSE w1
    ELSE w

select_role(w, u, role) ==
  IF RoomFound(w) /\ InRoom(w, u)
    THEN IF role = "referee" /\ u \notin Admins
           THEN Emit0(w, "role_select_error")
           ELSE LET hasReferee ==
                      IF w.pl[u].role = "referee" /\ role # "referee"
                        THEN \E i \in 1..Len(w.room.players) :
                               /\ w.room.players[i] # u
                               /\ w.pl[w.room.players[i]].role = "referee"
                        ELSE IF role = "referee" THEN TRUE ELSE w.room.hasReferee
                    w1 == [w EXCEPT !.room.hasReferee = hasReferee,
                                    !.pl[u].role = role,
                                    !.pl[u].position = Unset,
                                    !.pl[u].isReady = FALSE]
                IN Notify(Notify(w1, "room_update"), "role_selected")
    ELSE w

\* select_position that always takes the position asked for (not the code:
\* the position held is not cleared).
select_position_set(w, u, position) ==
  IF RoomFound(w) /\ InRoom(w, u) /\ w.pl[u].role = "player"
    THEN Notify(Notify([w EXCEPT !.pl[u].position =
                          IF position = "null" THEN Unset ELSE position],
                       "room_update"), "position_selected")
    ELSE w

\* position is "agree", "disagree" or "null"; an unset position is
\* `undefined`, which is not === null.
select_position(w, u, position) ==
  IF RoomFound(w) /\ InRoom(w, u) /\ w.pl[u].role = "player"
    THEN LET w1 == IF w.pl[u].position = position
                     THEN [w EXCEPT !.pl[u].position = Unset,
                                    !.pl[u].isReady = FALSE]
                     ELSE [w EXCEPT !.pl[u].position =
                                      IF position = "null" THEN Unset ELSE position]
         IN Notify(Notify(w1, "room_update"), "position_selected")
    ELSE w

\* The position fill of discussion_view_ready: the players without a position
\* get, in order, the positions no player holds.
FillPositions(w) ==
  LET playerRolePlayers == RolePlayers(w)
      playersWithoutPosition ==
        SelectSeq(playerRolePlayers, LAMBDA p : w.pl[p].position = Unset)
      hasAgree == \E i \in 1..Len(playerRolePlayers) :
                    w.pl[playerRolePlayers[i]].position = "agree"
      hasDisagree == \E i \in 1..Len(playerRolePlayers) :
                       w.pl[playerRolePlayers[i]].position = "disagree"
      availablePositions ==
        (IF hasAgree THEN <<>> ELSE <<"agree">>) \o
        (IF hasDisagree THEN <<>> ELSE <<"disagree">>)
      idx(u) == FindIdx([i \in 1..Len(playersWithoutPosition) |->
                          playersWithoutPosition[i] = u])
  IN IF Len(playerRolePlayers) >= 2 /\ Len(playersWithoutPosition) > 0
       THEN [w EXCEPT !.pl =
               [u \in Users |->
                  IF idx(u) > 0 /\ idx(u) <= Len(availablePositions)
                    THEN [w.pl[u] EXCEPT !.position = availablePositions[idx(u)]]
                    ELSE w.pl[u]]]
       ELSE w

\* discussion_view_ready: when every participant is marked ready the positions
\* are filled and startBattleLogic is scheduled 500 ms later.
discussion_view_ready(w, u) ==
  IF RoomFound(w) /\ w.room.battleStarted /\ InRoom(w, u)
    THEN LET w1 == [w EXCEPT !.pl[u].discussionViewReady = TRUE]
             allPlayersReady == \A i \in 1..Len(w1.room.players) :
                                  w1.pl[w1.room.players[i]].discussionViewReady
         IN IF allPlayersReady
              THEN [Notify(FillPositions(w1), "player_list_updated")
                      EXCEPT !.timeouts = @ + 1]
              ELSE w1
    ELSE w

leave_room(w, u) ==
  IF RoomFound(w)
    THEN LET rest == SelectSeq(w.room.players, LAMBDA p : p # u)
             w1 == [w EXCEPT !.room.players = rest]
         IN IF Len(rest) = 0
              THEN Notify([w1 EXCEPT !.room.listed = FALSE, !.battleStates = 0],
                          "rooms_update")
              ELSE LET w2 == [w1 EXCEPT
                                !.pl = [p \in Users |->
                                          IF InSeq(rest, p)
                                            THEN [w1.pl[p] EXCEPT !.isReady = FALSE]
                                            ELSE w1.pl[p]],
                                !.room.hasReferee =
                                   \E i \in 1..Len(rest) : w1.pl[rest[i]].role = "referee"]
                   IN Notify(Notify(w2, "room_update"), "rooms_update")
    ELSE w

----------------------------------------------------------------------------
(* MatchState objects (types/battle.ts BattleState) *)

NewTimer ==
  [totalTimeUsed |-> 0, roundTimeUsed |-> 0, penaltyPoints |-> 0,
   penaltyCount |-> 0, isOvertime |-> FALSE, overtimeStarted |-> Undef]

\* A setInterval handle with the variables its callback closes over.
NoInterval ==
  [active |-> FALSE, userId |-> NoUser, lastRoundTimeRemaining |-> -1,
   lastTotalTimeRemaining |-> -1, lastOvertimeRemaining |-> -1]

NoScores == [agree |-> -1, disagree |-> -1]

\* The object literal assigned to battleStates[roomId].
NewState(players, live, copy, agreePlayer, disagreePlayer) ==
  [stage |-> 0, discussionLog |-> <<>>, messages |-> <<>>,
   players |-> players, live |-> live, copy |-> copy,
   agreePlayer |-> agreePlayer, disagreePlayer |-> disagreePlayer,
   timers |-> [u \in {agreePlayer, disagreePlayer} |-> NewTimer],
   currentTurnStartTime |-> Undef, isGameEndedByPenalty |-> FALSE,
   serverTimerInterval |-> NoInterval,
   aiEvaluationResult |-> NoResult, humanRefereeScores |-> NoScores]

\* An object nothing refers to any more.
Collected == NewState(<<>>, FALSE, [u \in {} |-> NoPlayer], NoUser, NoUser)

HasState(w) == w.battleStates # 0
St(w) == w.states[w.battleStates]

\* The Player object a MatchState's players entry refers to.
Obj(w, s, u) == IF s.live THEN w.pl[u] ELSE s.copy[u]

\* state.players.find((p) => p.userId !== userId)?.userId
FirstOther(s, u) ==
  LET i == FindIdx([k \in 1..Len(s.players) |-> s.players[k] # u])
  IN IF i = 0 THEN NoUser ELSE s.players[i]

\* state.players.find((p) => p.role === 'referee')
FindReferee(w, s) ==
  LET i == FindIdx([k \in 1..Len(s.players) |->
                      Obj(w, s, s.players[k]).role = "referee"])
  IN IF i = 0 THEN NoUser ELSE s.players[i]

----------------------------------------------------------------------------
(* battleHandlers.ts: addMessage *)

\* addMessage without the isDuplicate test (a mutation used against
\* C9_MessagesHaveNoDuplicates).
addMessageNoDedup(w, sender, text, by) ==
  IF ~HasState(w) THEN w
  ELSE LET message == [sender |-> sender, text |-> text, timestamp |-> w.now,
                       by |-> by]
           w1 == [w EXCEPT !.states[w.battleStates].messages = Append(@, message)]
       IN Emit(w1, Ev("messages_updated", NoUser, 0, St(w1).messages, NoResult))

\* `by` records which client event (or "engine") asked for the append; it is
\* not part of MessageEntry and is never read by the handlers.
addMessage(w, sender, text, by) ==
  IF ~HasState(w) THEN w
  ELSE LET state == St(w)
           message == [sender |-> sender, text |-> text, timestamp |-> w.now,
                       by |-> by]
           isDuplicate == \E i \in 1..Len(state.messages) :
                            /\ state.messages[i].sender = sender
                            /\ state.messages[i].text = text
       IN IF ~isDuplicate
            THEN LET w1 == [w EXCEPT !.states[w.battleStates].messages =
                                        Append(@, message)]
                 IN Emit(w1, Ev("messages_updated", NoUser, 0,
                                St(w1).messages, NoResult))
            ELSE w

----------------------------------------------------------------------------
(* timeUtils.ts *)

\* The rating a user_profile row holds before any match of the model.
InitialRating(u) == [user |-> u]

\* The user_profile row of u before any match.
NoStats(u) == [rating |-> InitialRating(u), wins |-> 0, loses |-> 0]

\* calculateEloRating: playerRating + kFactor * (actualScore - expectedScore)
\* with kFactor > 0 and 0 < expectedScore < 1 that fall strictly as
\* opponentRating falls.  The result is kept as the expression over the
\* ratings it was computed from: it differs from playerRating, and two
\* results for one playerRating and outcome are equal only for equal
\* opponentRating.
calculateEloRating(playerRating, opponentRating, won) ==
  [playerRating |-> playerRating, opponentRating |-> opponentRating, won |-> won]

\* updateUserStats, taken as one store transaction: both profiles are read
\* as the store holds them at the call, and the user's rating, wins and
\* loses are written.
updateUserStats(w, userId, opponentId, won) ==
  IF userId \notin Users \/ opponentId \notin Users THEN w
  ELSE [w EXCEPT !.profiles[userId] =
          [rating |-> calculateEloRating(@.rating, w.profiles[opponentId].rating, won),
           wins |-> @.wins + (IF won THEN 1 ELSE 0),
           loses |-> @.loses + (IF won THEN 0 ELSE 1)]]

saveBattleResult(w, agreePlayerId, disagreePlayerId, winnerId, aiResult) ==
  [w EXCEPT !.battles = Append(@, [player1 |-> agreePlayerId,
                                   player2 |-> disagreePlayerId,
                                   winner |-> winnerId, result |-> aiResult])]

\* A suspended async chain: the handler or IIFE that awaits the judge calls
\* and the store writes.  obj is the MatchState object it closed over.
Task(kind, obj, pc, result, winner, loser) ==
  [kind |-> kind, obj |-> obj, pc |-> pc, result |-> result,
   winner |-> winner, loser |-> loser]

handleAutomaticDefeat(w, defeatedUserId) ==
  IF ~HasState(w) THEN w
  ELSE LET state == St(w)
           defeatedFound == InSeq(state.players, defeatedUserId)
           winnerId == FirstOther(state, defeatedUserId)
       IN IF winnerId = NoUser \/ ~defeatedFound THEN w
          ELSE LET automaticResult ==
                     [agree |-> IF winnerId = state.agreePlayer THEN 100 ELSE 0,
                      disagree |-> IF winnerId = state.disagreePlayer THEN 100 ELSE 0,
                      winner |-> winnerId]
                   w1 == [w EXCEPT !.states[w.battleStates].isGameEndedByPenalty = TRUE]
                   w2 == Emit(w1, Ev("ai_judge_message", NoUser, 11, <<>>, NoResult))
                   w3 == Emit(w2, Ev("battle_result", NoUser, 0, <<>>, automaticResult))
               IN [w3 EXCEPT
                     !.tasks = Append(@, Task("defeat", w.battleStates, "stats1",
                                              automaticResult, winnerId, defeatedUserId)),
                     !.battleStates = 0]

\* handleTimeOverflow without the maxPenaltyPoints test (a mutation: no
\* overflow ends the match).
handleTimeOverflowNoForfeit(w, userId, type) ==
  IF ~HasState(w) THEN w
  ELSE IF userId \notin DOMAIN St(w).timers THEN Throw(w)
  ELSE LET c == w.battleStates
           w1 == [w EXCEPT !.states[c].timers[userId] =
                     [@ EXCEPT !.penaltyPoints = @ + penaltyPoints,
                               !.penaltyCount = @ + 1,
                               !.isOvertime = TRUE,
                               !.overtimeStarted = w.now]]
       IN Emit(Emit(w1, Ev("penalty_applied", userId,
                           St(w1).timers[userId].penaltyPoints, <<>>, NoResult)),
               Ev("overtime_granted", userId, 0, <<>>, NoResult))

handleTimeOverflow(w, userId, type) ==
  IF ~HasState(w) THEN w
  ELSE IF userId \notin DOMAIN St(w).timers THEN Throw(w)
  ELSE LET c == w.battleStates
           w1 == [w EXCEPT !.states[c].timers[userId] =
                     [@ EXCEPT !.penaltyPoints = @ + penaltyPoints,
                               !.penaltyCount = @ + 1,
                               !.isOvertime = TRUE,
                               !.overtimeStarted = w.now]]
       IN IF St(w1).timers[userId].penaltyPoints >= maxPenaltyPoints
            THEN handleAutomaticDefeat(w1, userId)
            ELSE Emit(Emit(w1, Ev("penalty_applied", userId,
                                  St(w1).timers[userId].penaltyPoints, <<>>, NoResult)),
                      Ev("overtime_granted", userId, 0, <<>>, NoResult))

\* startServerTimer: the interval of the current MatchState object is cleared
\* and a new one is stored on it.
startServerTimer(w, userId) ==
  IF ~HasState(w) THEN w
  ELSE [w EXCEPT !.states[w.battleStates].serverTimerInterval =
          [NoInterval EXCEPT !.active = TRUE, !.userId = userId]]

startTurnTimer(w, userId) ==
  IF ~HasState(w) THEN w
  ELSE IF userId \notin DOMAIN St(w).timers THEN Throw(w)
  ELSE startServerTimer(
         [w EXCEPT !.states[w.battleStates].currentTurnStartTime = w.now,
                   !.states[w.battleStates].timers[userId].roundTimeUsed = 0,
                   !.states[w.battleStates].timers[userId].isOvertime = FALSE],
         userId)

\* The callback of the interval stored on MatchState object i.
serverTimerTick(w, i) ==
  LET userId == w.states[i].serverTimerInterval.userId
  IN IF ~HasState(w) \/ St(w).currentTurnStartTime = Undef
       THEN [w EXCEPT !.states[i].serverTimerInterval.active = FALSE]
     ELSE IF userId \notin DOMAIN St(w).timers THEN Throw(w)
     ELSE
       LET currentState == St(w)
           roundTimeUsed == w.now - currentState.currentTurnStartTime
           playerTimer == currentState.timers[userId]
           totalTimeUsed == playerTimer.totalTimeUsed + roundTimeUsed
           roundTimeRemaining == Max(0, roundTimeLimit - roundTimeUsed)
           totalTimeRemaining == Max(0, totalTimeLimit - totalTimeUsed)
           inOvertime == playerTimer.isOvertime /\ playerTimer.overtimeStarted # Undef
           overtimeUsed == w.now - playerTimer.overtimeStarted
           overtimeRemaining == IF inOvertime THEN Max(0, overtimeLimit - overtimeUsed)
                                ELSE 0
           cr == CeilSec(roundTimeRemaining)
           ct == CeilSec(totalTimeRemaining)
           co == CeilSec(overtimeRemaining)
           iv == w.states[i].serverTimerInterval
       IN IF roundTimeUsed > roundTimeLimit /\ ~playerTimer.isOvertime
            THEN handleTimeOverflow(w, userId, "round")
          ELSE IF inOvertime /\ overtimeUsed > overtimeLimit
            THEN handleTimeOverflow(w, userId, "round")
          ELSE IF totalTimeUsed > totalTimeLimit /\ ~playerTimer.isOvertime
            THEN handleTimeOverflow(w, userId, "total")
          ELSE IF \/ cr # iv.lastRoundTimeRemaining
                  \/ ct # iv.lastTotalTimeRemaining
                  \/ co # iv.lastOvertimeRemaining
            THEN Emit([w EXCEPT !.states[i].serverTimerInterval =
                                  [@ EXCEPT !.lastRoundTimeRemaining = cr,
                                            !.lastTotalTimeRemaining = ct,
                                            !.lastOvertimeRemaining = co]],
                      [Ev("timer_update", userId, 0, <<>>, NoResult)
                         EXCEPT !.t = <<cr, ct, IF inOvertime THEN 1 ELSE 0, co>>])
          ELSE w

\* The values the interval's callback computes for a timer_update of userId
\* at the present time: roundTimeRemaining, totalTimeRemaining, isOvertime
\* (1 or 0) and overtimeRemaining, in seconds.
timerUpdateValues(w, userId) ==
  LET currentState == St(w)
      roundTimeUsed == w.now - currentState.currentTurnStartTime
      playerTimer == currentState.timers[userId]
      totalTimeUsed == playerTimer.totalTimeUsed + roundTimeUsed
      roundTimeRemaining == Max(0, roundTimeLimit - roundTimeUsed)
      totalTimeRemaining == Max(0, totalTimeLimit - totalTimeUsed)
      inOvertime == playerTimer.isOvertime /\ playerTimer.overtimeStarted # Undef
      overtimeRemaining == IF inOvertime
                             THEN Max(0, overtimeLimit - (w.now - playerTimer.overtimeStarted))
                             ELSE 0
  IN <<CeilSec(roundTimeRemaining), CeilSec(totalTimeRemaining),
       IF inOvertime THEN 1 ELSE 0, CeilSec(overtimeRemaining)>>

\* calculateTimeUsed: <<roundTime, totalTime>>; the caller has checked that
\* state.timers[userId] exists when currentTurnStartTime is set.
calculateTimeUsed(w, userId) ==
  IF ~HasState(w) \/ St(w).currentTurnStartTime = Undef THEN <<0, 0>>
  ELSE LET roundTimeUsed == w.now - St(w).currentTurnStartTime
       IN <<roundTimeUsed, St(w).timers[userId].totalTimeUsed + roundTimeUsed>>

updatePlayerTime(w, userId) ==
  IF ~HasState(w) \/ St(w).currentTurnStartTime = Undef THEN w
  ELSE IF userId \notin DOMAIN St(w).timers THEN Throw(w)
  ELSE LET used == calculateTimeUsed(w, userId)
       IN [w EXCEPT !.states[w.battleStates].timers[userId].roundTimeUsed = used[1],
                    !.states[w.battleStates].timers[userId].totalTimeUsed = used[2]]

checkTimeLimit(w, userId) ==
  IF ~HasState(w) THEN w
  ELSE IF St(w).currentTurnStartTime # Undef /\ userId \notin DOMAIN St(w).timers
    THEN Throw(w)
  ELSE LET used == calculateTimeUsed(w, userId)
       IN IF used[1] > roundTimeLimit /\ ~St(w).timers[userId].isOvertime
            THEN handleTimeOverflow(w, userId, "round")
          ELSE IF used[2] > totalTimeLimit /\ ~St(w).timers[userId].isOvertime
            THEN handleTimeOverflow(w, userId, "total")
          ELSE w

----------------------------------------------------------------------------
(* battleHandlers.ts *)

\* Who speaks in a stage (the switch of proceedToNextStage and of
\* get_room_state): NoUser outside stages 1..9.
CurrentTurn(s) ==
  IF s.stage \in {1, 4, 6, 8} THEN s.agreePlayer
  ELSE IF s.stage \in {2, 3, 5, 7, 9} THEN s.disagreePlayer
  ELSE NoUser

\* First entry of a players array with the given position, NoUser when none;
\* objs holds the Player object of each entry.
FindPosition(players, objs, position) ==
  LET i == FindIdx([k \in 1..Len(players) |-> objs[players[k]].position = position])
  IN IF i = 0 THEN NoUser ELSE players[i]

\* The part shared by startBattleLogic and the start_battle_logic handler,
\* from `battleStates[roomId] = {...}` on.  judgeByMessage: the opening goes
\* through addMessage (startBattleLogic) or is emitted as ai_judge_message
\* followed by player_list_updated (the socket handler).
InitBattle(w, players, live, copy, agreePlayer, disagreePlayer, judgeByMessage) ==
  LET w1 == [w EXCEPT !.states = Append(@, NewState(players, live, copy,
                                                    agreePlayer, disagreePlayer)),
                      !.battleStates = Len(w.states) + 1]
      w2 == IF judgeByMessage
              THEN addMessage(w1, "judge", "opening", "engine")
              ELSE Notify(Emit(w1, Ev("ai_judge_message", NoUser, 0, <<>>, NoResult)),
                          "player_list_updated")
      w3 == [w2 EXCEPT !.states[w2.battleStates].stage = 1]
      w4 == startTurnTimer(w3, agreePlayer)
      w5 == addMessage(w4, "system", "turn1", "engine")
  IN Emit(w5, Ev("turn_info", agreePlayer, 1, <<>>, NoResult))

\* startBattleLogic(io, room), run by the timeout of discussion_view_ready on
\* the room object the handler closed over.
startBattleLogic(w) ==
  LET players == w.room.players
      agreePlayer == FindPosition(players, w.pl, "agree")
      disagreePlayer == FindPosition(players, w.pl, "disagree")
      missing == agreePlayer = NoUser \/ disagreePlayer = NoUser
  IN IF missing /\ Len(players) # 2
       THEN Emit0(w, "battle_error")
       ELSE LET w1 == IF missing
                        THEN [w EXCEPT !.pl[players[1]].position = "agree",
                                       !.pl[players[2]].position = "disagree"]
                        ELSE w
            IN InitBattle(w1, players, TRUE, [u \in {} |-> NoPlayer],
                          FindPosition(players, w1.pl, "agree"),
                          FindPosition(players, w1.pl, "disagree"), TRUE)

\* The start_battle_logic socket handler; the payload is a room as a client
\* holds it: players (user ids in order) and copy (their deserialised objects).
start_battle_logic(w, players, copy) ==
  LET agreePlayer == FindPosition(players, copy, "agree")
      disagreePlayer == FindPosition(players, copy, "disagree")
      missing == agreePlayer = NoUser \/ disagreePlayer = NoUser
  IN IF missing /\ Len(players) # 2
       THEN Emit0(w, "battle_error")
       ELSE LET copy1 == IF missing
                           THEN [copy EXCEPT ![players[1]].position = "agree",
                                             ![players[2]].position = "disagree"]
                           ELSE copy
            IN InitBattle(w, players, FALSE, copy1,
                          FindPosition(players, copy1, "agree"),
                          FindPosition(players, copy1, "disagree"), FALSE)

\* conductAIEvaluation up to its first await (the structured judge call).
conductAIEvaluation(w, i) ==
  [Emit(w, Ev("ai_judge_message", NoUser, 10, <<>>, NoResult))
     EXCEPT !.tasks = Append(@, Task("eval", i, "gen1", NoResult, NoUser, NoUser))]

\* proceedToNextStage(io, roomId, state) for the MatchState object i the
\* caller holds.
proceedToNextStage(w, i) ==
  LET w1 == [w EXCEPT !.states[i].stage = @ + 1]
      state == w1.states[i]
      stage == state.stage
      judgeNote == stage \in {3, 8}
  IN IF stage \in 2..9
       THEN LET w2 == startTurnTimer(w1, CurrentTurn(state))
                w3 == IF judgeNote
                        THEN Emit(w2, Ev("ai_judge_message", NoUser, stage, <<>>, NoResult))
                        ELSE w2
            IN IF w2.err THEN w2
               ELSE Emit(w3, Ev("turn_info", CurrentTurn(state), stage, <<>>, NoResult))
     ELSE IF stage = 10 THEN conductAIEvaluation(w1, i)
     ELSE w1

\* The tag send_message gives a message.
SenderTag(state, userId) ==
  IF userId = state.agreePlayer THEN "agree" ELSE "disagree"

\* send_message with the two time functions skipped for a sender who has no
\* PlayerTimer (a mutation used against C10_PlayerTagsComeFromTheirPlayer).
send_message_untimed(w, userId, message) ==
  IF Len(w.room.players) = 0 \/ ~HasState(w) THEN w
  ELSE LET i == w.battleStates
           timed == userId \in DOMAIN St(w).timers
       IN IF ~InSeq(St(w).players, userId) \/ St(w).isGameEndedByPenalty THEN w
          ELSE LET w1 == IF timed THEN updatePlayerTime(w, userId) ELSE w
                   w2 == IF timed THEN checkTimeLimit(w1, userId) ELSE w1
               IN IF w1.err THEN w1
                  ELSE IF w2.err \/ w2.states[i].isGameEndedByPenalty THEN w2
                  ELSE LET w3 == [w2 EXCEPT !.states[i].discussionLog =
                                     Append(@, [userId |-> userId, message |-> message,
                                                stage |-> w2.states[i].stage])]
                           w4 == addMessage(w3, SenderTag(w3.states[i], userId),
                                            message, userId)
                       IN proceedToNextStage(w4, i)

\* send_message with the stage advanced before the message is appended (a
\* mutation: turn_info is broadcast ahead of messages_updated).
send_message_advance_first(w, userId, message) ==
  IF Len(w.room.players) = 0 \/ ~HasState(w) THEN w
  ELSE LET i == w.battleStates
       IN IF ~InSeq(St(w).players, userId) \/ St(w).isGameEndedByPenalty THEN w
          ELSE LET w1 == updatePlayerTime(w, userId)
                   w2 == checkTimeLimit(w1, userId)
               IN IF w1.err THEN w1
                  ELSE IF w2.err \/ w2.states[i].isGameEndedByPenalty THEN w2
                  ELSE LET w3 == [w2 EXCEPT !.states[i].discussionLog =
                                     Append(@, [userId |-> userId, message |-> message,
                                                stage |-> w2.states[i].stage])]
                           w4 == proceedToNextStage(w3, i)
                       IN addMessage(w4, SenderTag(w3.states[i], userId),
                                     message, userId)

send_message(w, userId, message) ==
  IF Len(w.room.players) = 0 \/ ~HasState(w) THEN w
  ELSE LET i == w.battleStates
       IN IF ~InSeq(St(w).players, userId) \/ St(w).isGameEndedByPenalty THEN w
          ELSE LET w1 == updatePlayerTime(w, userId)
                   w2 == checkTimeLimit(w1, userId)
               IN IF w1.err THEN w1
                  ELSE IF w2.err \/ w2.states[i].isGameEndedByPenalty THEN w2
                  ELSE LET w3 == [w2 EXCEPT !.states[i].discussionLog =
                                     Append(@, [userId |-> userId, message |-> message,
                                                stage |-> w2.states[i].stage])]
                           w4 == addMessage(w3, SenderTag(w3.states[i], userId),
                                            message, userId)
                       IN proceedToNextStage(w4, i)

time_overflow(w, userId, type) ==
  IF ~HasState(w) THEN w
  ELSE handleTimeOverflow(w, userId, IF type = "overtime" THEN "round" ELSE type)

\* state.players.find((p) => p.userId === refereeId && p.role === 'referee')
IsReferee(w, refereeId) ==
  /\ HasState(w)
  /\ InSeq(St(w).players, refereeId)
  /\ Obj(w, St(w), refereeId).role = "referee"

\* The guard shared by the four referee adjustment handlers: a MatchState, a
\* referee, a target in state.players with a timer.
RefereeMay(w, targetUserId, refereeId) ==
  /\ IsReferee(w, refereeId)
  /\ InSeq(St(w).players, targetUserId)
  /\ targetUserId \in DOMAIN St(w).timers

\* referee_add_points without Math.max(0, ...) (a mutation used against
\* C8_PenaltyPointsInRange).
referee_add_points_unclamped(w, targetUserId, points, refereeId) ==
  IF ~RefereeMay(w, targetUserId, refereeId) THEN w
  ELSE LET w1 == [w EXCEPT !.states[w.battleStates].timers[targetUserId].penaltyPoints =
                     @ - points]
       IN Emit(w1, Ev("penalty_applied", targetUserId,
                      St(w1).timers[targetUserId].penaltyPoints, <<>>, NoResult))

referee_add_points(w, targetUserId, points, refereeId) ==
  IF ~RefereeMay(w, targetUserId, refereeId) THEN w
  ELSE LET w1 == [w EXCEPT !.states[w.battleStates].timers[targetUserId].penaltyPoints =
                     Max(0, @ - points)]
       IN Emit(w1, Ev("penalty_applied", targetUserId,
                      St(w1).timers[targetUserId].penaltyPoints, <<>>, NoResult))

referee_deduct_points(w, targetUserId, points, refereeId) ==
  IF ~RefereeMay(w, targetUserId, refereeId) THEN w
  ELSE LET w1 == [w EXCEPT !.states[w.battleStates].timers[targetUserId].penaltyPoints =
                     Min(maxPenaltyPoints, @ + points)]
       IN IF St(w1).timers[targetUserId].penaltyPoints >= maxPenaltyPoints
            THEN handleAutomaticDefeat(w1, targetUserId)
            ELSE Emit(w1, Ev("penalty_applied", targetUserId,
                             St(w1).timers[targetUserId].penaltyPoints, <<>>, NoResult))

\* referee_extend_time without Math.max(0, ...) (a mutation: totalTimeUsed
\* goes below zero).
referee_extend_time_unclamped(w, targetUserId, seconds, refereeId) ==
  IF ~RefereeMay(w, targetUserId, refereeId) THEN w
  ELSE Emit([w EXCEPT !.states[w.battleStates].timers[targetUserId].totalTimeUsed =
               @ - seconds * 1000],
            Ev("time_extended", targetUserId, seconds, <<>>, NoResult))

referee_extend_time(w, targetUserId, seconds, refereeId) ==
  IF ~RefereeMay(w, targetUserId, refereeId) THEN w
  ELSE Emit([w EXCEPT !.states[w.battleStates].timers[targetUserId].totalTimeUsed =
               Max(0, @ - seconds * 1000)],
            Ev("time_extended", targetUserId, seconds, <<>>, NoResult))

referee_reduce_time(w, targetUserId, seconds, refereeId) ==
  IF ~RefereeMay(w, targetUserId, refereeId) THEN w
  ELSE Emit([w EXCEPT !.states[w.battleStates].timers[targetUserId].totalTimeUsed =
               @ + seconds * 1000],
            Ev("time_reduced", targetUserId, seconds, <<>>, NoResult))

FloorSec(ms) == ms \div 1000

\* The switch of get_room_state with case 3 under the agree cases (a
\* mutation: the snapshot names the wrong speaker in stage 3).
SnapshotTurnShifted(s) ==
  IF s.stage \in {1, 3, 4, 6, 8} THEN s.agreePlayer
  ELSE IF s.stage \in {2, 5, 7, 9} THEN s.disagreePlayer
  ELSE NoUser

\* currentTurnUserId of get_room_state: its own switch over state.stage,
\* '' (NoUser) outside stages 1..9.
SnapshotTurn(s) ==
  IF s.stage \in {1, 4, 6, 8} THEN s.agreePlayer
  ELSE IF s.stage \in {2, 3, 5, 7, 9} THEN s.disagreePlayer
  ELSE NoUser

\* The room_state_updated payload, sent to the socket of the caller `to`.
\* t holds roundTimeRemaining, totalTimeRemaining, isOvertime (1 or 0) and
\* overtimeRemaining of timerState, as a timer_update holds them.
RoomState(to, messages, stage, currentTurn, isMyTurn, battleEnded, isRunning, t) ==
  [ev |-> "room_state_updated", user |-> currentTurn, n |-> stage,
   msgs |-> messages, res |-> NoResult, t |-> t, to |-> to,
   isMyTurn |-> isMyTurn, battleEnded |-> battleEnded, isRunning |-> isRunning]

get_room_state(w, userId) ==
  IF ~HasState(w)
    THEN Emit(w, RoomState(userId, <<>>, 0, NoUser, FALSE, TRUE, FALSE,
                           <<120, 300, 0, 30>>))
  ELSE LET state == St(w)
           currentTurnUserId == SnapshotTurn(state)
           hasTimer == currentTurnUserId # NoUser
                         /\ currentTurnUserId \in DOMAIN state.timers
           currentTime == w.now
           turnStartTime == IF state.currentTurnStartTime # Undef
                              THEN state.currentTurnStartTime ELSE currentTime
           roundTimeRemaining ==
             Max(0, FloorSec(roundTimeLimit - (currentTime - turnStartTime)))
           totalTimeRemaining ==
             IF hasTimer
               THEN Max(0, FloorSec(totalTimeLimit
                                    - state.timers[currentTurnUserId].totalTimeUsed))
               ELSE 300
           over == /\ roundTimeRemaining <= 0
                   /\ hasTimer
                   /\ ~state.timers[currentTurnUserId].isOvertime
           overtimeRemaining ==
             IF over
               THEN Max(0, FloorSec(overtimeLimit
                                    - (currentTime - turnStartTime - roundTimeLimit)))
               ELSE 30
       IN IF state.stage \in 1..9 /\ currentTurnUserId = NoUser THEN Throw(w)
          ELSE Emit(w, RoomState(userId, state.messages, state.stage,
                                 currentTurnUserId, currentTurnUserId = userId,
                                 state.stage >= 10 \/ state.isGameEndedByPenalty,
                                 currentTurnUserId = userId /\ state.stage \in 1..9,
                                 <<roundTimeRemaining, totalTimeRemaining,
                                   IF over THEN 1 ELSE 0, overtimeRemaining>>))

\* The blend with Math.floor for Math.round (a mutation used against
\* C14_BlendIsTheRoundedWeightedMean).
BlendScoreTruncated(ai, human) ==
  Max(0, Min(100, (4 * ai + 6 * human) \div 10))

\* Math.round(ai * 0.4 + human * 0.6) for scores in 0..100, then the clamp.
BlendScore(ai, human) ==
  Max(0, Min(100, (4 * ai + 6 * human + 5) \div 10))

calculateCombinedScore(aiResult, humanScores) ==
  [agree |-> BlendScore(aiResult.agree, humanScores.agree),
   disagree |-> BlendScore(aiResult.disagree, humanScores.disagree),
   winner |-> aiResult.winner]

\* Continue a chain after battle_result: the stats updates when both ids are
\* known, then the save.
AfterResult(w, kind, i, result, winnerId, loserId) ==
  [w EXCEPT !.tasks = Append(@, Task(kind, i,
                                     IF winnerId # NoUser /\ loserId # NoUser
                                       THEN "stats1" ELSE "save",
                                     result, winnerId, loserId))]

referee_submit_scores(w, scores, refereeId) ==
  IF ~IsReferee(w, refereeId) THEN w
  ELSE LET i == w.battleStates
           w1 == [w EXCEPT !.states[i].humanRefereeScores = scores]
           state == w1.states[i]
       IN IF state.aiEvaluationResult = NoResult THEN w1
          ELSE LET finalResult == calculateCombinedScore(state.aiEvaluationResult, scores)
                   winnerId == finalResult.winner
                   loserId == FirstOther(state, winnerId)
               IN AfterResult(Emit(w1, Ev("battle_result", NoUser, 0, <<>>, finalResult)),
                              "submit", i, finalResult, winnerId, loserId)

----------------------------------------------------------------------------
(* conductAIEvaluation after its awaits, and the store writes *)

RemoveAt(s, k) == SubSeq(s, 1, k - 1) \o SubSeq(s, k + 1, Len(s))

\* The structured judge call returned parseable JSON: the winner token is
\* translated to a user id of the MatchState object the chain holds.
judgeReplied(w, k, verdict) ==
  LET state == w.states[w.tasks[k].obj]
      winner == IF verdict.winner = "agree" THEN state.agreePlayer
                ELSE state.disagreePlayer
  IN [w EXCEPT !.tasks[k].pc = "gen2",
               !.tasks[k].result = [agree |-> verdict.agree,
                                    disagree |-> verdict.disagree,
                                    winner |-> winner]]

\* A judge call rejected, or its output did not parse: the catch branch.
judgeFailed(w, k) ==
  [Emit0(w, "battle_error") EXCEPT !.tasks = RemoveAt(@, k)]

\* The narration call returned: the rest of conductAIEvaluation's try block
\* up to the first store await.
narrationReplied(w, k) ==
  LET i == w.tasks[k].obj
      resultJson == w.tasks[k].result
      w1 == Emit(w, Ev("ai_judge_message", NoUser, 10, <<>>, NoResult))
      w2 == [w1 EXCEPT !.states[i].aiEvaluationResult = resultJson,
                       !.tasks = RemoveAt(@, k)]
      state == w2.states[i]
      referee == FindReferee(w2, state)
  IN IF referee # NoUser
       THEN Emit(w2, Ev("show_referee_score_modal", referee, 0, <<>>, resultJson))
       ELSE AfterResult(Emit(w2, Ev("battle_result", NoUser, 0, <<>>, resultJson)),
                        "eval", i, resultJson, resultJson.winner,
                        FirstOther(state, resultJson.winner))

\* One store await of a chain resolved.  After the save the chains of
\* conductAIEvaluation and referee_submit_scores run `delete
\* battleStates[roomId]`; the IIFE of handleAutomaticDefeat ends.
storeStep(w, k) ==
  LET t == w.tasks[k]
      state == w.states[t.obj]
  IN IF t.pc = "stats1"
       THEN [updateUserStats(w, t.winner, t.loser, TRUE) EXCEPT !.tasks[k].pc = "stats2"]
     ELSE IF t.pc = "stats2"
       THEN [updateUserStats(w, t.loser, t.winner, FALSE) EXCEPT !.tasks[k].pc = "save"]
     ELSE LET w1 == saveBattleResult(w, state.agreePlayer, state.disagreePlayer,
                                     t.winner, t.result)
          IN [w1 EXCEPT !.tasks = RemoveAt(@, k),
                        !.battleStates = IF t.kind = "defeat" THEN @ ELSE 0]

----------------------------------------------------------------------------
(* Garbage: objects no closure, room or MatchState refers to *)

StateReferenced(w, i) ==
  \/ w.battleStates = i
  \/ w.states[i].serverTimerInterval.active
  \/ \E k \in 1..Len(w.tasks) : w.tasks[k].obj = i

PlayerReferenced(w, u) ==
  \/ InRoom(w, u)
  \/ \E i \in 1..Len(w.states) :
       StateReferenced(w, i) /\ w.states[i].live /\ InSeq(w.states[i].players, u)

\* An object deleted from battleStates is never attached again.  Its interval
\* callback reads only its serverTimerInterval, and a suspended chain only its
\* players and the two debaters; the fields nothing reads are blanked.
Stale(w, i) ==
  LET s == w.states[i]
      held == \E k \in 1..Len(w.tasks) : w.tasks[k].obj = i
      kept == IF held
                THEN NewState(s.players, s.live, s.copy, s.agreePlayer, s.disagreePlayer)
                ELSE Collected
  IN [kept EXCEPT !.serverTimerInterval = s.serverTimerInterval]

Collect(w) ==
  LET w1 == [w EXCEPT !.states = [i \in 1..Len(w.states) |->
                                    IF w.battleStates = i THEN w.states[i]
                                    ELSE Stale(w, i)]]
  IN [w1 EXCEPT !.pl = [u \in Users |->
                          IF PlayerReferenced(w1, u) THEN w1.pl[u] ELSE NoPlayer]]

\* The part of the state space explored.  scope names the specification a
\* behaviour belongs to ("room": a room from its creation; the other scopes
\* follow one started match, see the specifications below) and never changes.
Bounded(w) ==
  /\ Len(w.states) + w.timeouts <= MaxMatches
  /\ w.detours <= MaxDetours
  /\ IF w.scope = "room"
       THEN /\ Len(w.tasks) <= MaxTasks
            /\ w.now <= MaxNow
            /\ \A i \in 1..Len(w.states) :
                 /\ w.states[i].stage <= (IF i = 1 THEN MaxStage ELSE MaxRematchStage)
                 /\ \A u \in DOMAIN w.states[i].timers :
                      w.states[i].timers[u].penaltyCount <= MaxPenaltyCount
       ELSE /\ Len(w.tasks) <= MaxMatchTasks
            /\ w.now <= MaxMatchNow

\* A handler that returned without changing or emitting anything.
Quiet(w) ==
  /\ w.out = <<>> /\ ~w.err
  /\ w.room = room /\ w.pl = pl /\ w.states = states
  /\ w.battleStates = battleStates /\ w.timeouts = timeouts /\ w.tasks = tasks
  /\ w.profiles = profiles /\ w.battles = battles /\ w.now = now

\* The step of one handler.  out and err hold what the last handler that did
\* anything emitted and whether it threw; a handler that returns without
\* effect leaves the state as it is.  off: the event is off the script of a
\* plain match (create, join, ready, view-ready, the speaker's messages, the
\* judge and the store) and counts against MaxDetours.
Commit(w0, off) ==
  LET w1 == Collect(w0)
      w == IF off THEN [w1 EXCEPT !.detours = @ + 1] ELSE w1
  IN IF (off /\ detours >= MaxDetours) \/ Quiet(w1)
       THEN UNCHANGED vars
       ELSE /\ Bounded(w)
            /\ room' = w.room
            /\ pl' = w.pl
            /\ states' = w.states
            /\ battleStates' = w.battleStates
            /\ timeouts' = w.timeouts
            /\ tasks' = w.tasks
            /\ profiles' = w.profiles
            /\ battles' = w.battles
            /\ now' = w.now
            /\ out' = w.out
            /\ err' = w.err
            /\ detours' = w.detours
            /\ scope' = w.scope
            /\ UNCHANGED lobbyVars

----------------------------------------------------------------------------
(* Actions *)

\* roomHandlers.ts and RequestManager.ts after module load: no room, no
\* request in flight; every connection of Sockets is open.
NoRequests ==
  /\ rooms = <<>>
  /\ processingRequests = {}
  /\ watchdogs = {}
  /\ calls = <<>>
  /\ connected = Sockets

Init ==
  /\ room = [made |-> FALSE, listed |-> FALSE, players |-> <<>>,
             battleStarted |-> FALSE, hasReferee |-> FALSE]
  /\ pl = [u \in Users |-> NoPlayer]
  /\ states = <<>>
  /\ battleStates = 0
  /\ timeouts = 0
  /\ tasks = <<>>
  /\ profiles = [u \in Users |-> NoStats(u)]
  /\ battles = <<>>
  /\ now = 1
  /\ out = <<>>
  /\ err = FALSE
  /\ detours = 0
  /\ scope = "room"
  /\ NoRequests

CreateRoom == \E u \in Creators : ~room.made /\ Commit(create_room(W, u), FALSE)

JoinRoom ==
  \E u \in Users :
    /\ room.listed
    /\ u = "u2" => InSeq(room.players, "u1")
    /\ Commit(join_room(W, u), room.battleStarted)

PlayerReady ==
  \E u \in Users : room.listed /\ Commit(player_ready(W, u), room.battleStarted)

SelectRole ==
  /\ detours < MaxDetours
  /\ \E u \in Users, role \in Roles :
    room.listed /\ Commit(select_role(W, u, role), TRUE)

SelectPosition ==
  /\ detours < MaxDetours
  /\ \E u \in Users, position \in Positions \cup {"null"} :
    room.listed /\ Commit(select_position(W, u, position), TRUE)

DiscussionViewReady ==
  \E u \in Users :
    room.battleStarted /\ Commit(discussion_view_ready(W, u), pl[u].discussionViewReady)

LeaveRoom ==
  /\ detours < MaxDetours
  /\ \E u \in Users : room.listed /\ Commit(leave_room(W, u), TRUE)

\* The 500 ms timeout of discussion_view_ready fires.
StartBattleTimeout ==
  /\ timeouts > 0
  /\ Commit(startBattleLogic([W EXCEPT !.timeouts = @ - 1]), FALSE)

\* A client sends start_battle_logic, after battle_start, with the room as the
\* server holds it.
StartBattleLogicEvent ==
  /\ detours < MaxDetours
  /\ room.listed
  /\ room.battleStarted
  /\ Commit(start_battle_logic(W, room.players,
               [u \in {room.players[i] : i \in 1..Len(room.players)} |-> pl[u]]),
            TRUE)

SendMessage ==
  \E u \in Users, m \in Texts :
    /\ battleStates # 0
    /\ Commit(send_message(W, u, m), u # CurrentTurn(states[battleStates]))

TimeOverflow ==
  /\ detours < MaxDetours
  /\ \E u \in Users, type \in {"round", "total", "overtime"} :
    battleStates # 0 /\ Commit(time_overflow(W, u, type), TRUE)

RefereeAddPoints ==
  /\ detours < MaxDetours
  /\ \E t \in Users, r \in Users, n \in PointAmounts :
    battleStates # 0 /\ Commit(referee_add_points(W, t, n, r), TRUE)

RefereeDeductPoints ==
  /\ detours < MaxDetours
  /\ \E t \in Users, r \in Users, n \in PointAmounts :
    battleStates # 0 /\ Commit(referee_deduct_points(W, t, n, r), TRUE)

RefereeExtendTime ==
  /\ detours < MaxDetours
  /\ \E t \in Users, r \in Users, n \in SecondAmounts :
    battleStates # 0 /\ Commit(referee_extend_time(W, t, n, r), TRUE)

RefereeReduceTime ==
  /\ detours < MaxDetours
  /\ \E t \in Users, r \in Users, n \in SecondAmounts :
    battleStates # 0 /\ Commit(referee_reduce_time(W, t, n, r), TRUE)

\* Scores handed in before the judge's verdict is stored are off the script.
RefereeSubmitScores ==
  \E r \in Users, sc \in HumanScores :
    /\ battleStates # 0
    /\ Commit(referee_submit_scores(W, sc, r),
              states[battleStates].aiEvaluationResult = NoResult)

ServerTimerTick ==
  \E i \in 1..Len(states) :
    states[i].serverTimerInterval.active /\ Commit(serverTimerTick(W, i), FALSE)

\* Time passes.  Only time elapsed since a turn started is ever read, so the
\* clock is followed while a MatchState exists.
ClockAdvance ==
  \E d \in ClockSteps :
    /\ battleStates # 0
    /\ states[battleStates].stage <= MaxClockStage
    /\ now + d <= MaxNow
    /\ Commit([W EXCEPT !.now = @ + d], FALSE)

JudgeReply ==
  \E k \in 1..Len(tasks), v \in JudgeVerdicts :
    tasks[k].pc = "gen1" /\ Commit(judgeReplied(W, k, v), FALSE)

JudgeFail ==
  \E k \in 1..Len(tasks) :
    tasks[k].pc \in {"gen1", "gen2"} /\ Commit(judgeFailed(W, k), FALSE)

NarrationReply ==
  \E k \in 1..Len(tasks) :
    tasks[k].pc = "gen2" /\ Commit(narrationReplied(W, k), FALSE)

StoreStep ==
  \E k \in 1..Len(tasks) :
    tasks[k].pc \in {"stats1", "stats2", "save"} /\ Commit(storeStep(W, k), FALSE)

Next ==
  \/ CreateRoom
  \/ JoinRoom
  \/ PlayerReady
  \/ SelectRole
  \/ SelectPosition
  \/ DiscussionViewReady
  \/ LeaveRoom
  \/ StartBattleTimeout
  \/ StartBattleLogicEvent
  \/ SendMessage
  \/ TimeOverflow
  \/ RefereeAddPoints
  \/ RefereeDeductPoints
  \/ RefereeExtendTime
  \/ RefereeReduceTime
  \/ RefereeSubmitScores
  \/ ServerTimerTick
  \/ ClockAdvance
  \/ JudgeReply
  \/ JudgeFail
  \/ NarrationReply
  \/ StoreStep

Spec == Init /\ [][Next]_vars

----------------------------------------------------------------------------
(* A started match: the state a script of events leaves *)

\* The state after construction, as a world of the given scope.
W0(sc) ==
  [room |-> [made |-> FALSE, listed |-> FALSE, players |-> <<>>,
             battleStarted |-> FALSE, hasReferee |-> FALSE],
   pl |-> [u \in Users |-> NoPlayer], states |-> <<>>, battleStates |-> 0,
   timeouts |-> 0, tasks |-> <<>>,
   profiles |-> [u \in Users |-> NoStats(u)],
   battles |-> <<>>, now |-> 1, out |-> <<>>, err |-> FALSE, detours |-> 0,
   scope |-> sc]

\* One event of a script: a client event of user u, or the timeout.
Event(op, u) == [op |-> op, u |-> u]

\* The handler an event runs.
Handle(w, e) ==
  CASE e.op = "create_room" -> create_room(w, e.u)
    [] e.op = "join_room" -> join_room(w, e.u)
    [] e.op = "player_ready" -> player_ready(w, e.u)
    [] e.op = "discussion_view_ready" -> discussion_view_ready(w, e.u)
    [] e.op = "timeout" -> startBattleLogic([w EXCEPT !.timeouts = @ - 1])

\* The step of one handler on a world, as Commit takes it on the variables.
Do(w, e) ==
  LET r == Collect(Handle([w EXCEPT !.out = <<>>, !.err = FALSE], e))
  IN IF r.out = <<>> /\ ~r.err /\ [r EXCEPT !.out = w.out, !.err = w.err] = w
       THEN w ELSE r

RECURSIVE Run(_, _)
Run(w, es) == IF es = <<>> THEN w ELSE Run(Do(w, Head(es)), Tail(es))

\* The room of the participants ps, in their order of arrival (ps[1] creates
\* it), after the players readied, everyone signalled discussion_view_ready
\* and the timeout ran startBattleLogic: stage 1, agreePlayer speaks.
Opened(ps, sc) ==
  LET joined == Run(W0(sc),
                    <<Event("create_room", ps[1])>> \o
                    [i \in 1..(Len(ps) - 1) |-> Event("join_room", ps[i + 1])])
      debaters == SelectSeq(ps, LAMBDA u : joined.pl[u].role = "player")
      ready == Run(joined, [i \in 1..Len(debaters) |->
                              Event("player_ready", debaters[i])])
      viewed == Run(ready, [i \in 1..Len(ps) |->
                              Event("discussion_view_ready", ps[i])])
  IN Run(viewed, <<Event("timeout", NoUser)>>)

\* Two players; the admin as referee, first in the room; a spectator, last.
Lobbies == {<<"u1", "u2">>, <<"u3", "u1", "u2">>, <<"u1", "u2", "u3">>}

\* The variables hold the world w.
Starts(w) ==
  /\ room = w.room
  /\ pl = w.pl
  /\ states = w.states
  /\ battleStates = w.battleStates
  /\ timeouts = w.timeouts
  /\ tasks = w.tasks
  /\ profiles = w.profiles
  /\ battles = w.battles
  /\ now = w.now
  /\ out = w.out
  /\ err = w.err
  /\ detours = w.detours
  /\ scope = w.scope
  /\ NoRequests

----------------------------------------------------------------------------
(* The ticker alone: a match whose phase-1 speaker never sends *)

TickerInit == \E ps \in Lobbies : Starts(Opened(ps, "ticker"))

\* Time passes, in steps that fall short of an overtime window and in steps
\* that exhaust one.
TickerClock ==
  \E d \in TickerSteps :
    /\ battleStates # 0
    /\ now + d <= MaxTickerNow
    /\ Commit([W EXCEPT !.now = @ + d], FALSE)

TickerNext ==
  \/ TickerClock
  \/ ServerTimerTick
  \/ StoreStep

TickerSpec == TickerInit /\ [][TickerNext]_vars

----------------------------------------------------------------------------
(* The blend: the match of a room with a referee, any verdict, any sheet *)

\* A verdict, a score sheet: the score of one side drawn, the other fixed.
VerdictOf(side, n) ==
  [agree |-> IF side = "agree" THEN n ELSE FixedScore,
   disagree |-> IF side = "disagree" THEN n ELSE FixedScore,
   winner |-> "agree"]

SheetOf(side, n) ==
  [agree |-> IF side = "agree" THEN n ELSE FixedScore,
   disagree |-> IF side = "disagree" THEN n ELSE FixedScore]

ScoreInit == Starts(Opened(<<"u3", "u1", "u2">>, "scores"))

\* The speaker of the stage sends.
ScoreSend ==
  /\ battleStates # 0
  /\ Commit(send_message(W, CurrentTurn(states[battleStates]), "t1"), FALSE)

\* The structured judge call returns a verdict.
ScoreJudgeReply ==
  \E k \in 1..Len(tasks), side \in Positions, n \in 0..MaxScore :
    tasks[k].pc = "gen1" /\ Commit(judgeReplied(W, k, VerdictOf(side, n)), FALSE)

\* The referee's submission, once the verdict is stored.
ScoreSubmit ==
  \E r \in Admins, side \in Positions, n \in 0..MaxScore :
    /\ battleStates # 0
    /\ states[battleStates].aiEvaluationResult # NoResult
    /\ tasks = <<>>
    /\ Commit(referee_submit_scores(W, SheetOf(side, n), r), FALSE)

ScoreNext ==
  \/ ScoreSend
  \/ ScoreJudgeReply
  \/ NarrationReply
  \/ ScoreSubmit

ScoreSpec == ScoreInit /\ [][ScoreNext]_vars

----------------------------------------------------------------------------
(* The snapshot: a started match whose state a client asks for *)

SnapInit == \E ps \in Lobbies : Starts(Opened(ps, "snap"))

\* The speaker of the stage sends, up to the last turn.
SnapSend ==
  /\ battleStates # 0
  /\ states[battleStates].stage < MaxSnapStage
  /\ Commit(send_message(W, CurrentTurn(states[battleStates]), "t1"), FALSE)

\* Time passes to one of the instants SnapElapsed of the running turn, in
\* the first MaxSnapClockStage stages.
SnapClock ==
  \E e \in SnapElapsed :
    /\ battleStates # 0
    /\ states[battleStates].stage <= MaxSnapClockStage
    /\ states[battleStates].currentTurnStartTime # Undef
    /\ states[battleStates].currentTurnStartTime + e > now
    /\ Commit([W EXCEPT !.now = states[battleStates].currentTurnStartTime + e], FALSE)

\* A participant asks for the state of the room.
GetRoomState ==
  \E u \in Users :
    InSeq(room.players, u) /\ Commit(get_room_state(W, u), FALSE)

SnapNext ==
  \/ SnapSend
  \/ SnapClock
  \/ ServerTimerTick
  \/ GetRoomState

SnapSpec == SnapInit /\ [][SnapNext]_vars

----------------------------------------------------------------------------
(* A started match to its end, under fairness *)

LiveInit == \E ps \in Lobbies : Starts(Opened(ps, "live"))

\* An interval's callback would do something at the present time: the
\* interval runs every second, so it sees every second of the clock.
TickPending ==
  \E i \in 1..Len(states) :
    states[i].serverTimerInterval.active /\ ~Quiet(Collect(serverTimerTick(W, i)))

\* Time passes once the intervals have seen the present time.
LiveClock ==
  \E d \in ClockSteps :
    /\ battleStates # 0
    /\ ~TickPending
    /\ Commit([W EXCEPT !.now = @ + d], FALSE)

\* A pending judge call completes, with a reply or with a failure.
JudgeCallCompletes ==
  \/ JudgeReply
  \/ NarrationReply
  \/ JudgeFail

\* A referee hands in scores, before or after the verdict, while no chain of
\* store writes is pending.
LiveSubmit ==
  \E r \in Admins, sc \in HumanScores :
    /\ battleStates # 0
    /\ \A k \in 1..Len(tasks) : tasks[k].pc \notin {"stats1", "stats2", "save"}
    /\ Commit(referee_submit_scores(W, sc, r), FALSE)

\* The speaker of the stage sends, up to MaxSendNow; a speaker who has not
\* sent by then stays silent.
LiveSend ==
  /\ battleStates # 0
  /\ now <= MaxSendNow
  /\ Commit(send_message(W, CurrentTurn(states[battleStates]), "t1"), FALSE)

\* The referee leaves the room during the match.
LiveLeave ==
  \E r \in Admins :
    /\ battleStates # 0
    /\ InSeq(room.players, r)
    /\ pl[r].role = "referee"
    /\ Commit(leave_room(W, r), FALSE)

LiveNext ==
  \/ LiveSend
  \/ LiveSubmit
  \/ LiveLeave
  \/ ServerTimerTick
  \/ LiveClock
  \/ JudgeCallCompletes
  \/ StoreStep

\* The step Commit(w0, FALSE) can be taken and changes the state.
Moves(w0) ==
  LET w == Collect(w0)
  IN /\ ~Quiet(w)
     /\ Bounded(w)
     /\ w # [W EXCEPT !.out = out, !.err = err]

\* ENABLED <<A>>_vars of the actions that are scheduled fairly.
CanTick ==
  \E i \in 1..Len(states) :
    states[i].serverTimerInterval.active /\ Moves(serverTimerTick(W, i))

CanClock ==
  \E d \in ClockSteps :
    battleStates # 0 /\ ~TickPending /\ Moves([W EXCEPT !.now = @ + d])

CanComplete ==
  \E k \in 1..Len(tasks) :
    \/ tasks[k].pc \in {"gen1", "gen2"} /\ Moves(judgeFailed(W, k))
    \/ tasks[k].pc = "gen2" /\ Moves(narrationReplied(W, k))
    \/ \E v \in JudgeVerdicts : tasks[k].pc = "gen1" /\ Moves(judgeReplied(W, k, v))

CanStore ==
  \E k \in 1..Len(tasks) :
    tasks[k].pc \in {"stats1", "stats2", "save"} /\ Moves(storeStep(W, k))

CanSubmit ==
  \E r \in Admins, sc \in HumanScores :
    /\ battleStates # 0
    /\ \A k \in 1..Len(tasks) : tasks[k].pc \notin {"stats1", "stats2", "save"}
    /\ Moves(referee_submit_scores(W, sc, r))

\* Weak fairness of each scheduled action, WF_vars(A) written out as
\* []<>~ENABLED <<A>>_vars \/ []<><<A>>_vars: the intervals fire, time
\* passes, a judge call and a store write complete, and a referee in the
\* match hands in scores.  No speaker has to send.
LiveFair ==
  /\ []<>(~CanTick) \/ []<><<ServerTimerTick>>_vars
  /\ []<>(~CanClock) \/ []<><<LiveClock>>_vars
  /\ []<>(~CanComplete) \/ []<><<JudgeCallCompletes>>_vars
  /\ []<>(~CanStore) \/ []<><<StoreStep>>_vars
  /\ []<>(~CanSubmit) \/ []<><<LiveSubmit>>_vars

LiveSpec == LiveInit /\ [][LiveNext]_vars /\ LiveFair

----------------------------------------------------------------------------
(* The registry: rooms, connections and the RequestManager *)

\* The users whose user_profile row has is_admin set, in the registry's
\* specification.
LobbyAdmins == {"u2", "u3"}

\* The (connection, userId) pairs events arrive with: every user has a
\* connection, and u2 is also signed in on s3.
Logins == {<<"s1", "u1">>, <<"s2", "u2">>, <<"s3", "u3">>, <<"s3", "u2">>}

\* Steps of Date.now() between two events.
LobbyClockSteps == {30000}

\* One room and its participants (scope "lobby")
MaxCalls == 3
MaxRooms == 1
\* The registry and the deduper over time (scope "registry")
MaxRegistryCalls == 3
MaxRegistryRooms == 2
MaxLobbyNow == 30001
\* Events of handlers without await in one behaviour of the registry
MaxLobbyEvents == 3

\* RequestManager: the watchdog of startProcessing, in ms.
watchdogDelay == 30000

\* The registry's variables as one record, threaded through a handler.
L == [rooms |-> rooms, processingRequests |-> processingRequests,
      watchdogs |-> watchdogs, calls |-> calls, connected |-> connected,
      now |-> now, out |-> <<>>, scope |-> scope]

\* An event of the lobby: n is the identity of the room object concerned.
LobbyEv(name, user, n) == Ev(name, user, n, <<>>, NoResult)

\* RequestManager.isProcessing
isProcessing(l, socketId, requestType) ==
  <<socketId, requestType>> \in l.processingRequests

\* RequestManager.startProcessing when it returns true (isProcessing is
\* tested by the caller): the token is added and a watchdog is set.
startProcessing(l, socketId, requestType) ==
  LET timeoutKey == <<socketId, requestType>>
  IN [l EXCEPT !.processingRequests = @ \cup {timeoutKey},
               !.watchdogs = {t \in @ : t.key # timeoutKey} \cup
                               {[key |-> timeoutKey, due |-> l.now + watchdogDelay]}]

\* RequestManager.finishProcessing
finishProcessing(l, socketId, requestType) ==
  LET timeoutKey == <<socketId, requestType>>
  IN [l EXCEPT !.processingRequests = @ \ {timeoutKey},
               !.watchdogs = {t \in @ : t.key # timeoutKey}]

\* RequestManager.cleanup
cleanup(l, socketId) ==
  [l EXCEPT !.processingRequests = {k \in @ : k[1] # socketId},
            !.watchdogs = {t \in @ : t.key[1] # socketId}]

\* A handler invocation that reached an `await`: what its closure holds
\* (socket, arguments, the room object `room` and the entry `player` it
\* found, 0 when none), when it arrived (at), and once it ran to its end
\* (pc = "done") when it ended and whether it changed a room (applied).
\* overlaps: the earlier invocation of the same connection and request type
\* that was in flight, inside its watchdog's delay, when this one arrived
\* (0 when none).
Call(op, socketId, userId, roomId, roomObj, player, role, at) ==
  [op |-> op, socketId |-> socketId, userId |-> userId, roomId |-> roomId,
   room |-> roomObj, player |-> player, role |-> role, at |-> at,
   pc |-> "await", doneAt |-> 0, applied |-> FALSE, overlaps |-> 0]

\* The first invocation of (socketId, requestType) in flight and less than
\* the watchdog's delay old, 0 when none
InFlight(l, socketId, requestType) ==
  FindIdx([k \in 1..Len(l.calls) |->
             /\ l.calls[k].pc = "await"
             /\ l.calls[k].socketId = socketId /\ l.calls[k].op = requestType
             /\ l.now < l.calls[k].at + watchdogDelay])

\* The invocation k ran to its end: its closure is dropped.  Where the
\* deduper is followed (scope "registry") what the connection asked, when,
\* and whether it was applied stays on record.
Done(l, k, applied) ==
  [l EXCEPT !.calls[k] =
     IF l.scope = "registry"
       THEN [Call(@.op, @.socketId, NoUser, 0, 0, 0, "none", @.at)
               EXCEPT !.pc = "done", !.doneAt = l.now, !.applied = applied,
                      !.overlaps = l.calls[k].overlaps]
       ELSE [Call("none", "none", NoUser, 0, 0, 0, "none", 0)
               EXCEPT !.pc = "done"]]

\* An entry of room.players (types/battle.ts Player); id is the identity of
\* the object: the number of the invocation that built it.
Participant(id, socketId, userId, role) ==
  [id |-> id, socketId |-> socketId, userId |-> userId, role |-> role,
   isReady |-> FALSE]

\* rooms.findIndex((r) => r.roomId === roomId), 0 when none
FindRoom(l, roomId) ==
  FindIdx([i \in 1..Len(l.rooms) |-> l.rooms[i].roomId = roomId])

\* The place in rooms of the room object a closure holds, 0 when it was
\* spliced out of the registry.
RoomObject(l, id) ==
  FindIdx([i \in 1..Len(l.rooms) |-> l.rooms[i].id = id])

\* room.players.find((p) => p.userId === userId), 0 when none
FindPlayer(r, userId) ==
  FindIdx([i \in 1..Len(r.players) |-> r.players[i].userId = userId])

\* The place in room.players of the entry a closure holds, 0 when the
\* entry was filtered out.
PlayerObject(r, id) ==
  FindIdx([i \in 1..Len(r.players) |-> r.players[i].id = id])

\* create_room up to its first await: the deduper's token is taken and the
\* roomId is made from the clock.  `room_${n}` is one string per number n
\* and is kept as n.
create_room_received(l, socketId, userId) ==
  IF isProcessing(l, socketId, "create_room")
    THEN [l EXCEPT !.out = Append(@, LobbyEv("create_room_error", userId, 0))]
    ELSE [startProcessing(l, socketId, "create_room") EXCEPT
            !.calls = Append(@, [Call("create_room", socketId, userId, l.now,
                                      0, 0, "none", l.now)
                                   EXCEPT !.overlaps =
                                     InFlight(l, socketId, "create_room")])]

\* create_room from its awaits on.  The two lookups (subject, user_profile)
\* follow each other with no access to the registry in between and are one
\* step; found: both returned a row.
create_room_resumed(l, k, found) ==
  LET c == l.calls[k]
      role == IF c.userId \in LobbyAdmins THEN "referee" ELSE "player"
      newRoom == [id |-> k, roomId |-> c.roomId,
                  players |-> <<Participant(k, c.socketId, c.userId, role)>>,
                  battleStarted |-> FALSE, hasReferee |-> (role = "referee")]
      l1 == finishProcessing(l, c.socketId, "create_room")
  IN IF ~found
       THEN Done([l1 EXCEPT !.out = Append(@, LobbyEv("create_room_error", c.userId, 0))],
                 k, FALSE)
       ELSE Done([l1 EXCEPT !.rooms = Append(@, newRoom)], k, TRUE)

\* join_room up to its await
join_room_received(l, socketId, userId, roomId) ==
  IF isProcessing(l, socketId, "join_room")
    THEN [l EXCEPT !.out = Append(@, LobbyEv("join_room_error", userId, 0))]
    ELSE LET l1 == startProcessing(l, socketId, "join_room")
             i == FindRoom(l, roomId)
         IN IF i # 0 /\ ~l.rooms[i].battleStarted
              THEN [l1 EXCEPT !.calls = Append(@, [Call("join_room", socketId, userId,
                                                        roomId, l.rooms[i].id, 0,
                                                        "none", l.now)
                                                     EXCEPT !.overlaps =
                                                       InFlight(l, socketId, "join_room")])]
              ELSE [finishProcessing(l1, socketId, "join_room") EXCEPT
                      !.out = Append(@, LobbyEv("join_room_error", userId, 0))]

\* The join that pushes an entry without looking for one of the same
\* userId (not the code).
JoinedPlayersPushed(r, c, k) ==
  LET playerCount == Len(SelectSeq(r.players, LAMBDA p : p.role = "player"))
      role == IF playerCount < 2 THEN "player" ELSE "spectator"
  IN Append(r.players, Participant(k, c.socketId, c.userId, role))

\* The participants of room r after the join of call c, whose entry is k
JoinedPlayers(r, c, k) ==
  LET playerCount == Len(SelectSeq(r.players, LAMBDA p : p.role = "player"))
      role == IF playerCount < 2 THEN "player" ELSE "spectator"
      existingPlayer == FindPlayer(r, c.userId)
  IN IF existingPlayer # 0
       THEN [r.players EXCEPT ![existingPlayer].socketId = c.socketId]
       ELSE Append(r.players, Participant(k, c.socketId, c.userId, role))

\* join_room from its await on; found: the user_profile lookup returned a
\* row.  A room object spliced out of rooms meanwhile takes the entry
\* without the registry seeing it.
join_room_resumed(l, k, found) ==
  LET c == l.calls[k]
      i == RoomObject(l, c.room)
      l1 == finishProcessing(l, c.socketId, "join_room")
  IN IF ~found
       THEN Done([l1 EXCEPT !.out = Append(@, LobbyEv("join_room_error", c.userId, c.room))],
                 k, FALSE)
       ELSE IF i = 0
         THEN Done(l1, k, FALSE)
         ELSE Done([l1 EXCEPT !.rooms[i].players = JoinedPlayers(l.rooms[i], c, k),
                              !.out = Append(@, LobbyEv("room_update", c.userId, c.room))],
                   k, TRUE)

\* player_ready that keeps its token when it ends (not the code: no
\* finishProcessing in a finally).
player_ready_event_held(l, socketId, userId, roomId) ==
  LET i == FindRoom(l, roomId)
      j == IF i = 0 THEN 0 ELSE FindPlayer(l.rooms[i], userId)
      l0 == startProcessing(l, socketId, "player_ready")
  IN IF isProcessing(l, socketId, "player_ready")
       THEN l
       ELSE IF i = 0 \/ j = 0
         THEN l0
         ELSE [l0 EXCEPT !.rooms[i].players[j].isReady = ~@,
                         !.out = Append(@, LobbyEv("room_update", userId, l.rooms[i].id))]

\* player_ready counting the ready participants of any role (not the code).
player_ready_event_anyrole(l, socketId, userId, roomId) ==
  LET i == FindRoom(l, roomId)
      j == IF i = 0 THEN 0 ELSE FindPlayer(l.rooms[i], userId)
  IN IF isProcessing(l, socketId, "player_ready") \/ i = 0 \/ j = 0
       THEN l
       ELSE LET l1 == [l EXCEPT !.rooms[i].players[j].isReady = ~@,
                                !.out = Append(@, LobbyEv("room_update", userId, l.rooms[i].id))]
                players == SelectSeq(l1.rooms[i].players, LAMBDA p : p.role = "player")
                readyPlayers == SelectSeq(l1.rooms[i].players, LAMBDA p : p.isReady)
            IN IF Len(players) >= 2 /\ Len(readyPlayers) >= 2
                 THEN [l1 EXCEPT !.rooms[i].battleStarted = TRUE,
                                 !.out = Append(@, LobbyEv("battle_start", userId, l.rooms[i].id))]
                 ELSE l1

\* player_ready, in the registry.  The handler has no await: its token is
\* taken and released within the step.
player_ready_event(l, socketId, userId, roomId) ==
  LET i == FindRoom(l, roomId)
      j == IF i = 0 THEN 0 ELSE FindPlayer(l.rooms[i], userId)
  IN IF isProcessing(l, socketId, "player_ready") \/ i = 0 \/ j = 0
       THEN l
       ELSE LET l1 == [l EXCEPT !.rooms[i].players[j].isReady = ~@,
                                !.out = Append(@, LobbyEv("room_update", userId, l.rooms[i].id))]
                players == SelectSeq(l1.rooms[i].players, LAMBDA p : p.role = "player")
                readyPlayers == SelectSeq(players, LAMBDA p : p.isReady)
            IN IF Len(players) >= 2 /\ Len(readyPlayers) >= 2
                 THEN [l1 EXCEPT !.rooms[i].battleStarted = TRUE,
                                 !.out = Append(@, LobbyEv("battle_start", userId, l.rooms[i].id))]
                 ELSE l1

\* The assignments of select_role to the entry j of room i
RoleSelected(l, i, j, role) ==
  LET r == l.rooms[i]
      player == r.players[j]
      hasReferee ==
        IF player.role = "referee" /\ role # "referee"
          THEN \E n \in 1..Len(r.players) :
                 r.players[n].userId # player.userId /\ r.players[n].role = "referee"
          ELSE IF role = "referee" THEN TRUE ELSE r.hasReferee
  IN [l EXCEPT !.rooms[i].hasReferee = hasReferee,
               !.rooms[i].players[j].role = role,
               !.rooms[i].players[j].isReady = FALSE,
               !.out = Append(@, LobbyEv("role_selected", player.userId, r.id))]

\* select_role up to its await, which only the role referee has
select_role_received(l, socketId, userId, roomId, role) ==
  LET i == FindRoom(l, roomId)
      j == IF i = 0 THEN 0 ELSE FindPlayer(l.rooms[i], userId)
  IN IF isProcessing(l, socketId, "select_role") \/ i = 0 \/ j = 0
       THEN l
       ELSE IF role = "referee"
         THEN [startProcessing(l, socketId, "select_role") EXCEPT
                 !.calls = Append(@, Call("select_role", socketId, userId, roomId,
                                          l.rooms[i].id, l.rooms[i].players[j].id,
                                          role, l.now))]
         ELSE RoleSelected(l, i, j, role)

\* select_role from the is_admin lookup on.  An entry filtered out of the
\* room meanwhile takes the role without the room seeing it; hasReferee is
\* set on the room all the same.
select_role_resumed(l, k, found) ==
  LET c == l.calls[k]
      i == RoomObject(l, c.room)
      j == IF i = 0 THEN 0 ELSE PlayerObject(l.rooms[i], c.player)
      l1 == finishProcessing(l, c.socketId, "select_role")
  IN IF ~found \/ c.userId \notin LobbyAdmins
       THEN Done([l1 EXCEPT !.out = Append(@, LobbyEv("role_select_error", c.userId, c.room))],
                 k, FALSE)
       ELSE IF i = 0
         THEN Done(l1, k, FALSE)
         ELSE IF j = 0
           THEN Done([l1 EXCEPT !.rooms[i].hasReferee = TRUE,
                                !.out = Append(@, LobbyEv("role_selected", c.userId, c.room))],
                     k, TRUE)
           ELSE Done(RoleSelected(l1, i, j, c.role), k, TRUE)

\* leave_room, in the registry
leave_room_event(l, userId, roomId) ==
  LET i == FindRoom(l, roomId)
  IN IF i = 0
       THEN l
       ELSE LET rest == SelectSeq(l.rooms[i].players, LAMBDA p : p.userId # userId)
            IN IF Len(rest) = 0
                 THEN [l EXCEPT !.rooms = RemoveAt(@, i),
                                !.out = Append(@, LobbyEv("rooms_update", userId, l.rooms[i].id))]
                 ELSE [l EXCEPT
                         !.rooms[i].players =
                            [n \in 1..Len(rest) |-> [rest[n] EXCEPT !.isReady = FALSE]],
                         !.rooms[i].hasReferee =
                            \E n \in 1..Len(rest) : rest[n].role = "referee",
                         !.out = Append(@, LobbyEv("room_update", userId, l.rooms[i].id))]

\* join_discussion_room that adds an entry for a connection the user is
\* not bound to (not the code).
join_discussion_room_added(l, socketId, userId, roomId) ==
  LET i == FindRoom(l, roomId)
      j == IF i = 0 THEN 0 ELSE FindPlayer(l.rooms[i], userId)
  IN IF i = 0 \/ j = 0
       THEN l
       ELSE IF l.rooms[i].players[j].socketId = socketId
         THEN l
         ELSE [l EXCEPT !.rooms[i].players =
                 Append(@, Participant(0, socketId, userId, l.rooms[i].players[j].role))]

\* join_discussion_room: the entry of userId is bound to the socket
join_discussion_room(l, socketId, userId, roomId) ==
  LET i == FindRoom(l, roomId)
      j == IF i = 0 THEN 0 ELSE FindPlayer(l.rooms[i], userId)
  IN IF i = 0 \/ j = 0
       THEN l
       ELSE [l EXCEPT !.rooms[i].players[j].socketId = socketId]

\* The part of the registry's state space explored
LobbyBounded(l) ==
  IF l.scope = "registry"
    THEN /\ Len(l.calls) <= MaxRegistryCalls
         /\ Len(l.rooms) <= MaxRegistryRooms
         /\ l.now <= MaxLobbyNow
    ELSE /\ Len(l.calls) <= MaxCalls
         /\ Len(l.rooms) <= MaxRooms

\* The step of one handler of the registry; out holds what it emitted.
\* sync: the handler has no await and counts against MaxLobbyEvents (in
\* detours) when it changes the registry.
LobbyCommit(l, sync) ==
  /\ LobbyBounded(l)
  /\ IF sync /\ l.rooms # rooms
       THEN detours < MaxLobbyEvents /\ detours' = detours + 1
       ELSE detours' = detours
  /\ rooms' = l.rooms
  /\ processingRequests' = l.processingRequests
  /\ watchdogs' = l.watchdogs
  /\ calls' = l.calls
  /\ connected' = l.connected
  /\ now' = l.now
  /\ out' = l.out
  /\ UNCHANGED <<room, pl, states, battleStates, timeouts, tasks, profiles,
                 battles, err, scope>>

LobbyInit == Starts(W0("lobby"))

\* The roomIds a client can name: those of the rooms listed
RoomIds == {rooms[i].roomId : i \in 1..Len(rooms)}

CreateRoomReceived ==
  \E x \in Logins :
    x[1] \in connected /\ LobbyCommit(create_room_received(L, x[1], x[2]), FALSE)

CreateRoomResumed ==
  \E k \in 1..Len(calls), found \in BOOLEAN :
    /\ calls[k].op = "create_room" /\ calls[k].pc = "await"
    /\ LobbyCommit(create_room_resumed(L, k, found), FALSE)

JoinRoomReceived ==
  \E x \in Logins, roomId \in RoomIds :
    x[1] \in connected /\ LobbyCommit(join_room_received(L, x[1], x[2], roomId), FALSE)

JoinRoomResumed ==
  \E k \in 1..Len(calls), found \in BOOLEAN :
    /\ calls[k].op = "join_room" /\ calls[k].pc = "await"
    /\ LobbyCommit(join_room_resumed(L, k, found), FALSE)

PlayerReadyEvent ==
  \E x \in Logins, roomId \in RoomIds :
    x[1] \in connected /\ LobbyCommit(player_ready_event(L, x[1], x[2], roomId), TRUE)

SelectRoleReceived ==
  \E x \in Logins, roomId \in RoomIds, role \in Roles :
    x[1] \in connected /\ LobbyCommit(select_role_received(L, x[1], x[2], roomId, role), TRUE)

SelectRoleResumed ==
  \E k \in 1..Len(calls), found \in BOOLEAN :
    /\ calls[k].op = "select_role" /\ calls[k].pc = "await"
    /\ LobbyCommit(select_role_resumed(L, k, found), FALSE)

LeaveRoomEvent ==
  \E x \in Logins, roomId \in RoomIds :
    x[1] \in connected /\ LobbyCommit(leave_room_event(L, x[2], roomId), TRUE)

JoinDiscussionRoom ==
  \E x \in Logins, roomId \in RoomIds :
    x[1] \in connected /\ LobbyCommit(join_discussion_room(L, x[1], x[2], roomId), TRUE)

\* The watchdog of a token fires, no sooner than its delay.
WatchdogFires ==
  \E t \in watchdogs :
    /\ t.due <= now
    /\ LobbyCommit(finishProcessing(L, t.key[1], t.key[2]), FALSE)

\* disconnect: the connection's tokens are dropped; it sends nothing more.
\* Followed for a connection that holds a token (the disconnection of
\* another only silences it) while the others stay.
Disconnect ==
  \E socketId \in connected :
    /\ connected = Sockets
    /\ \E k \in processingRequests : k[1] = socketId
    /\ LobbyCommit([cleanup(L, socketId) EXCEPT !.connected = @ \ {socketId}], FALSE)

\* Date.now() moves on between two events.
LobbyClock ==
  \E d \in LobbyClockSteps : LobbyCommit([L EXCEPT !.now = @ + d], FALSE)

\* One room from its creation: who joins, who is ready, who has which role
LobbyNext ==
  \/ CreateRoomReceived \/ CreateRoomResumed
  \/ JoinRoomReceived \/ JoinRoomResumed
  \/ PlayerReadyEvent
  \/ SelectRoleReceived \/ SelectRoleResumed
  \/ LeaveRoomEvent \/ JoinDiscussionRoom

LobbySpec == LobbyInit /\ [][LobbyNext]_vars

\* The registry and the deduper: requests, their continuations, the
\* watchdogs and the clock
RegistryInit == Starts(W0("registry"))

RegistryNext ==
  \/ CreateRoomReceived \/ CreateRoomResumed
  \/ JoinRoomReceived \/ JoinRoomResumed
  \/ WatchdogFires \/ Disconnect \/ LobbyClock

RegistrySpec == RegistryInit /\ [][RegistryNext]_vars

----------------------------------------------------------------------------
(* Properties *)

\* The names of the events in a sequence of emitted events.
EventNames(o) == {o[j].ev : j \in 1..Len(o)}

\* The events the match engine sends to a room.
EngineEvents ==
  {"ai_judge_message", "battle_result", "timer_update", "penalty_applied",
   "show_referee_score_modal"}

\* The step is the handling of a send_message from u, who is not the speaker
\* of the current stage.
NonSpeakerSend(u, m) ==
  /\ battleStates # 0
  /\ u # CurrentTurn(states[battleStates])
  /\ Commit(send_message(W, u, m), TRUE)

\* The chains past their battle_result (the stats writes and the save).
StoreTasks == {k \in 1..Len(tasks) : tasks[k].pc \in {"stats1", "stats2", "save"}}

\* C1: while a MatchState exists for the room, every change of its stage is
\* an increase by exactly 1 and the stage stays within 0..10; it never
\* decreases or resets.  The MatchState is the one the room id points to
\* before and after the step.
C1_StageStepsByOne ==
  [][(battleStates # 0 /\ battleStates' # 0) =>
       /\ \/ states'[battleStates'].stage = states[battleStates].stage
          \/ states'[battleStates'].stage = states[battleStates].stage + 1
       /\ states'[battleStates'].stage \in 0..10]_vars

\* C2: a send_message from a user who is not the speaker of the current stage
\* is rejected silently: no MatchState field changes (stage, discussionLog,
\* messages, timers), nothing is emitted and no error is raised.
C2_NonSpeakerSendIsRejected ==
  [][(\E u \in Users, m \in Texts : NonSpeakerSend(u, m)) =>
       /\ UNCHANGED <<states, battleStates>>
       /\ out' = <<>>
       /\ ~err']_vars

C4_ForfeitWinnerIsTheOtherDebater ==
  \A k \in 1..Len(tasks) :
    tasks[k].kind = "defeat" =>
      LET s == states[tasks[k].obj]
          t == tasks[k]
      IN /\ t.loser \in {s.agreePlayer, s.disagreePlayer}
         /\ t.winner \in {s.agreePlayer, s.disagreePlayer} \ {t.loser}
         /\ t.result.winner = t.winner
         /\ t.result.agree = (IF t.winner = s.agreePlayer THEN 100 ELSE 0)
         /\ t.result.disagree = (IF t.winner = s.disagreePlayer THEN 100 ELSE 0)
         /\ t.result.agree + t.result.disagree = 100

\* C5: a match yields at most one set of terminal effects.  Every
\* battle_result starts one chain of writes and every chain ends with one
\* saved record, so the results announced so far are the saved records plus
\* the chains under way; there are no more of them, and no more wins and no
\* more losses, than MatchStates were built for the room.
C5_OneSetOfTerminalEffects ==
  LET wins == profiles["u1"].wins + profiles["u2"].wins + profiles["u3"].wins
      loses == profiles["u1"].loses + profiles["u2"].loses + profiles["u3"].loses
  IN /\ Len(battles) + Cardinality(StoreTasks) <= Len(states)
     /\ wins <= Len(states)
     /\ loses <= Len(states)

\* C6: once the room's MatchState is deleted (and until another is built) no
\* engine event is emitted for the room: what completes late is dropped.
C6_NoEngineEventAfterTeardown ==
  [][(Len(states) > 0 /\ battleStates = 0 /\ battleStates' = 0) =>
       EventNames(out') \cap EngineEvents = {}]_vars

\* C7: a room with a MatchState has one agreePlayer and one disagreePlayer,
\* two different users, both participants of the room with role player.
C7_DebatersArePlayers ==
  battleStates # 0 =>
    LET s == states[battleStates]
    IN /\ s.agreePlayer # s.disagreePlayer
       /\ \A p \in {s.agreePlayer, s.disagreePlayer} :
            InSeq(room.players, p) /\ pl[p].role = "player"

MessagesUpdated(o) == SelectSeq(o, LAMBDA e : e.ev = "messages_updated")

\* C9: the messages of a match never hold two entries with the same
\* (sender, text); and a step broadcasts messages_updated once per entry it
\* appends, each time with the list as it then is, so that an append of a
\* (sender, text) already present changes neither the length nor any
\* broadcast.
C9_MessagesHaveNoDuplicates ==
  /\ [](battleStates # 0 =>
          \A i, j \in 1..Len(states[battleStates].messages) :
            (/\ states[battleStates].messages[i].sender =
                  states[battleStates].messages[j].sender
             /\ states[battleStates].messages[i].text =
                  states[battleStates].messages[j].text) => i = j)
  /\ [][LET base == IF battleStates' = battleStates /\ battleStates # 0
                      THEN Len(states[battleStates].messages) ELSE 0
            sent == MessagesUpdated(out')
        IN IF battleStates' = 0 THEN sent = <<>>
           ELSE /\ Len(states'[battleStates'].messages) = base + Len(sent)
                /\ \A j \in 1..Len(sent) :
                     sent[j].msgs = SubSeq(states'[battleStates'].messages, 1, base + j)
                /\ base > 0 =>
                     SubSeq(states'[battleStates'].messages, 1, base) =
                       states[battleStates].messages]_vars

\* C9 witness: the speaker has just sent a text they had sent before: the
\* discussionLog holds both sends, the messages hold the text once, and the
\* step (which went on to the next stage) broadcast no messages_updated.
C9_DuplicateDropped ==
  /\ battleStates # 0
  /\ LET s == states[battleStates]
         n == Len(s.discussionLog)
     IN /\ n >= 2
        /\ s.stage = s.discussionLog[n].stage + 1
        /\ \E i \in 1..(n - 1) :
             /\ s.discussionLog[i].userId = s.discussionLog[n].userId
             /\ s.discussionLog[i].message = s.discussionLog[n].message
        /\ Cardinality({j \in 1..Len(s.messages) :
                          /\ s.messages[j].by = s.discussionLog[n].userId
                          /\ s.messages[j].text = s.discussionLog[n].message}) = 1
        /\ "turn_info" \in EventNames(out)
        /\ "messages_updated" \notin EventNames(out)

\* C10: a message tagged agree was appended for a send_message of agreePlayer,
\* a message tagged disagree for a send_message of disagreePlayer, and the
\* judge and system messages were appended by the engine and by nothing else.
C10_PlayerTagsComeFromTheirPlayer ==
  battleStates # 0 =>
    LET s == states[battleStates]
    IN \A j \in 1..Len(s.messages) :
         /\ s.messages[j].sender = "agree" => s.messages[j].by = s.agreePlayer
         /\ s.messages[j].sender = "disagree" => s.messages[j].by = s.disagreePlayer
         /\ s.messages[j].sender \in {"judge", "system"} <=> s.messages[j].by = "engine"

\* C10 witness: a match with a third participant in which both debaters have
\* messages of their own and an event of a third party has just been thrown
\* out (the handler raised).
C10_ThirdPartyThrownOut ==
  /\ battleStates # 0
  /\ err /\ out = <<>>
  /\ LET s == states[battleStates]
     IN /\ Len(s.players) = 3
        /\ \E j \in 1..Len(s.messages) :
             s.messages[j].sender = "agree" /\ s.messages[j].by = s.agreePlayer
        /\ \E j \in 1..Len(s.messages) :
             s.messages[j].sender = "disagree" /\ s.messages[j].by = s.disagreePlayer

\* The step is the catch branch of conductAIEvaluation for the chain k of the
\* match the room id points to: a judge call of phase 10 failed.
JudgeFailure(k) ==
  /\ k \in 1..Len(tasks)
  /\ tasks[k].kind = "eval"
  /\ tasks[k].pc \in {"gen1", "gen2"}
  /\ tasks[k].obj = battleStates
  /\ Commit(judgeFailed(W, k), FALSE)

\* The match the room id points to is in phase 10 and its judge call has
\* failed: no evaluation chain holds it and no verdict was stored.
JudgeHasFailed ==
  /\ battleStates # 0
  /\ states[battleStates].stage = 10
  /\ states[battleStates].aiEvaluationResult = NoResult
  /\ \A k \in 1..Len(tasks) : tasks[k].obj # battleStates

\* C11: when a judge call of phase 10 fails, the step emits battle_error,
\* deletes the MatchState and writes no profile and no match record; and no
\* later step starts a chain of writes for a match whose judge call failed.
C11_JudgeFailureDeletesTheMatch ==
  /\ [][(\E k \in 1..Len(tasks) : JudgeFailure(k)) =>
          /\ out' = <<Ev("battle_error", NoUser, 0, <<>>, NoResult)>>
          /\ battleStates' = 0
          /\ UNCHANGED <<profiles, battles>>]_vars
  /\ [][JudgeHasFailed => Len(tasks') <= Len(tasks)]_vars

\* The chains of the normal terminal of the match the room id points to: a
\* battle_result was emitted by conductAIEvaluation or referee_submit_scores
\* and the writes and the delete follow.
NormalTerminal ==
  {k \in StoreTasks : tasks[k].obj = battleStates /\ tasks[k].kind \in {"eval", "submit"}}

\* C12: the match reaches its normal terminal exactly when the verdict is
\* stored and either the match has no referee or the referee's scores are
\* stored, in whichever order the two arrived: a match with a referee whose
\* verdict and scores are both stored is at its normal terminal, and a step
\* emits the battle_result of the normal path only for a match with a stored
\* verdict and with no referee or with stored scores.
C12_NormalTerminalWhenVerdictAndScores ==
  /\ [](battleStates # 0 =>
          LET s == states[battleStates]
          IN (/\ s.aiEvaluationResult # NoResult
              /\ s.humanRefereeScores # NoScores
              /\ FindReferee(W, s) # NoUser) => NormalTerminal # {})
  /\ [][(/\ battleStates # 0
         /\ battleStates' = battleStates
         /\ NormalTerminal = {}
         /\ NormalTerminal' # {}) =>
          LET s == states'[battleStates]
          IN /\ s.aiEvaluationResult # NoResult
             /\ FindReferee(W, s) = NoUser \/ s.humanRefereeScores # NoScores]_vars

\* C13: the result of a blend names as winner the debater of the side with
\* the strictly higher blended score, and that winner is the one the chain of
\* writes carries to the profiles and the record.
C13_BlendedWinnerHasTheHigherScore ==
  \A k \in 1..Len(tasks) :
    tasks[k].kind = "submit" =>
      LET t == tasks[k]
          s == states[t.obj]
      IN /\ t.winner = t.result.winner
         /\ t.result.agree > t.result.disagree => t.result.winner = s.agreePlayer
         /\ t.result.disagree > t.result.agree => t.result.winner = s.disagreePlayer

\* C15: the chain of writes of a normal terminal gives the win to one debater
\* and the loss to the other debater: winner and loser are agreePlayer and
\* disagreePlayer in one order or the other.
C15_NormalTerminalUpdatesTheTwoDebaters ==
  \A k \in 1..Len(tasks) :
    tasks[k].kind \in {"eval", "submit"} /\ k \in StoreTasks =>
      LET t == tasks[k]
          s == states[t.obj]
      IN /\ t.winner \in {s.agreePlayer, s.disagreePlayer}
         /\ t.loser \in {s.agreePlayer, s.disagreePlayer} \ {t.winner}

\* C16: a MatchState is built only by the timeout that discussion_view_ready
\* scheduled, in a room whose battleStarted is set and whose players (role
\* player) have all signalled discussion_view_ready.
C16_MatchStateBuiltOnlyAfterViewReady ==
  [][Len(states') > Len(states) =>
       /\ timeouts' = timeouts - 1
       /\ room.battleStarted
       /\ \A i \in 1..Len(room.players) :
            pl[room.players[i]].role = "player" =>
              pl[room.players[i]].discussionViewReady]_vars

\* The position in a step's events of the battle_result of a forfeit (the
\* one that follows the judge's note of stage 11), 0 when there is none.
ForfeitResultAt(o) ==
  FindIdx([j \in 1..Len(o) |->
             /\ o[j].ev = "battle_result"
             /\ \E i \in 1..(j - 1) : o[i].ev = "ai_judge_message" /\ o[i].n = 11])

\* C19: the events of a step that ends the match by penalty forfeit hold,
\* before the battle_result, a penalty_applied for the offender that reports
\* the points at maxPenaltyPoints.
C19_PenaltyAppliedBeforeForfeitResult ==
  ForfeitResultAt(out) # 0 =>
    \E j \in 1..(ForfeitResultAt(out) - 1) :
      /\ out[j].ev = "penalty_applied"
      /\ out[j].n >= maxPenaltyPoints
      /\ out[ForfeitResultAt(out)].res.winner # out[j].user

\* r is x / 10 rounded to the nearest integer, halves up (Math.round).
Nearest(r, x) == 10 * r - x \in -4..5

\* C14: the result of the referee's submission holds, for each side, the
\* score round(0.4 * ai + 0.6 * human) of the stored verdict and the
\* submitted sheet, and that score lies in 0..100.
C14_BlendIsTheRoundedWeightedMean ==
  \A k \in 1..Len(tasks) :
    (tasks[k].kind = "submit" /\ tasks[k].obj = battleStates) =>
      LET ai == states[battleStates].aiEvaluationResult
          human == states[battleStates].humanRefereeScores
          r == tasks[k].result
      IN /\ Nearest(r.agree, 4 * ai.agree + 6 * human.agree)
         /\ Nearest(r.disagree, 4 * ai.disagree + 6 * human.disagree)
         /\ r.agree \in 0..100
         /\ r.disagree \in 0..100

\* C14 witness: a blend that rounded up has just been announced: the judge
\* gave agree 99, the referee 100, and the battle_result carries 100 for 99.6.
C14_BlendRoundedUp ==
  /\ battleStates # 0
  /\ states[battleStates].aiEvaluationResult.agree = 99
  /\ states[battleStates].humanRefereeScores.agree = 100
  /\ Len(out) = 1 /\ out[1].ev = "battle_result" /\ out[1].res.agree = 100
  /\ \E k \in 1..Len(tasks) : tasks[k].kind = "submit" /\ tasks[k].result.agree = 100

\* The speaker of the current stage is past the round limit without being in
\* overtime, or is in overtime and past the overtime window.
OverflowDue ==
  /\ battleStates # 0
  /\ LET s == states[battleStates]
         t == s.timers[CurrentTurn(s)]
     IN \/ ~t.isOvertime /\ now - s.currentTurnStartTime > roundTimeLimit
        \/ t.isOvertime /\ now - t.overtimeStarted > overtimeLimit

\* The overflows of a speaker who never sends.  A step of a running match
\* that is neither the clock's nor a store write is a tick.  A tick that finds
\* no overflow due leaves the timers alone; one that finds the overflow due
\* adds penaltyPoints (3), counts the overflow, starts a fresh overtime at the
\* present time and reports both; the tick of the sixth overflow
\* (maxPenaltyPoints / penaltyPoints) ends the match instead.
C17_OverflowPenalties ==
  [][(battleStates # 0 /\ now' = now /\ UNCHANGED <<profiles, battles>>) =>
       LET s == states[battleStates]
           u == CurrentTurn(s)
           t == s.timers[u]
       IN IF ~OverflowDue
            THEN /\ battleStates' = battleStates
                 /\ states'[battleStates].timers = s.timers
          ELSE IF t.penaltyCount < 5
            THEN /\ battleStates' = battleStates
                 /\ states'[battleStates].timers =
                      [s.timers EXCEPT ![u] =
                         [@ EXCEPT !.penaltyPoints = t.penaltyPoints + 3,
                                   !.penaltyCount = t.penaltyCount + 1,
                                   !.isOvertime = TRUE,
                                   !.overtimeStarted = now]]
                 /\ out' = <<Ev("penalty_applied", u, t.penaltyPoints + 3, <<>>, NoResult),
                             Ev("overtime_granted", u, 0, <<>>, NoResult)>>
          ELSE /\ t.penaltyPoints = 15
               /\ battleStates' = 0
               /\ "battle_result" \in EventNames(out')]_vars

\* C17: if the phase-1 speaker never sends, the ticker applies a penalty of 3
\* points with a fresh overtime when the round limit is exceeded and again
\* each time an overtime window is exhausted; the sixth overflow, and no
\* other step, ends the match by forfeit, and its battle_result names the
\* opponent (disagreePlayer) as winner.
C17_SixthOverflowForfeitsToOpponent ==
  /\ C17_OverflowPenalties
  /\ [][(battleStates # 0 /\ battleStates' = 0) =>
          \E j \in 1..Len(out') :
            /\ out'[j].ev = "battle_result"
            /\ out'[j].res.winner = states[battleStates].disagreePlayer
            /\ out'[j].res.agree = 0
            /\ out'[j].res.disagree = 100]_vars

FreshIntervals(sts) ==
  {sts[i].serverTimerInterval.userId : i \in
     {j \in 1..Len(sts) : /\ sts[j].serverTimerInterval.active
                          /\ sts[j].serverTimerInterval.lastRoundTimeRemaining = -1}}

\* The users named by the turn_info events of a sequence of emitted events.
TurnInfoUsers(o) == {o[j].user : j \in {k \in 1..Len(o) : o[k].ev = "turn_info"}}

SpeakerOfPhase(s, k) ==
  IF k \in {1, 4, 6, 8} THEN s.agreePlayer ELSE s.disagreePlayer

\* C21: in every phase k of 1..9 the speaker is agreePlayer for k in
\* {1,4,6,8} and disagreePlayer for k in {2,3,5,7,9}: the turn_info emitted
\* on entering the phase names that player and the phase, the turn timer and
\* its interval run for that player, and a room_state_updated of that phase
\* reports that player as currentTurn.
C21_SpeakerOfEachPhase ==
  /\ battleStates # 0 /\ states[battleStates].stage \in 1..9 =>
       LET s == states[battleStates]
       IN /\ s.currentTurnStartTime # Undef
          /\ s.serverTimerInterval.active
          /\ s.serverTimerInterval.userId = SpeakerOfPhase(s, s.stage)
  /\ \A j \in 1..Len(out) :
       /\ out[j].ev = "turn_info" =>
            /\ battleStates # 0
            /\ out[j].n = states[battleStates].stage
            /\ out[j].n \in 1..9
            /\ out[j].user = SpeakerOfPhase(states[battleStates], out[j].n)
       /\ out[j].ev = "room_state_updated" /\ out[j].n \in 1..9 =>
            /\ battleStates # 0
            /\ out[j].n = states[battleStates].stage
            /\ out[j].user = SpeakerOfPhase(states[battleStates], out[j].n)

\* A snapshot taken in phase 3, the second turn in a row of disagreePlayer.
C21_SnapshotOfPhaseThree ==
  /\ battleStates # 0
  /\ Len(out) = 1
  /\ out[1].ev = "room_state_updated"
  /\ out[1].n = 3
  /\ out[1].user = states[battleStates].disagreePlayer

\* C22: a room_state_updated sent during a live match equals the engine
\* state at that instant: the stage, the whole messages list, currentTurn the
\* speaker of the stage, isMyTurn for the caller who is that speaker, and in
\* stages 1..9 the round and total seconds remaining and the overtime flag
\* (with the overtime seconds while in overtime) that a timer_update of the
\* speaker would carry at the same instant; without a MatchState it is a
\* terminal snapshot with no messages.
C22_SnapshotEqualsEngineState ==
  \A j \in 1..Len(out) :
    out[j].ev = "room_state_updated" =>
      IF battleStates = 0
        THEN out[j].battleEnded /\ out[j].msgs = <<>>
        ELSE LET s == states[battleStates]
                 tu == timerUpdateValues(W, CurrentTurn(s))
             IN /\ out[j].n = s.stage
                /\ out[j].msgs = s.messages
                /\ out[j].user = CurrentTurn(s)
                /\ out[j].isMyTurn = (out[j].to = CurrentTurn(s))
                /\ s.stage \in 1..9 =>
                     /\ out[j].t[1] = tu[1]
                     /\ out[j].t[2] = tu[2]
                     /\ out[j].t[3] = tu[3]
                     /\ tu[3] = 1 => out[j].t[4] = tu[4]

\* Milliseconds of the running turn, and the speaker's total with them.
TurnElapsed == now - states[battleStates].currentTurnStartTime

SpeakerTotal ==
  states[battleStates].timers[CurrentTurn(states[battleStates])].totalTimeUsed
    + TurnElapsed

SpeakerPenalty(sts) ==
  sts[battleStates].timers[CurrentTurn(states[battleStates])].penaltyPoints

\* C23: a message the speaker sends when the turn has lasted exactly
\* roundTimeLimit milliseconds, the total budget not exceeded, is accepted
\* (logged, the stage advanced) and costs no penalty, and an interval that
\* fires at that instant charges none; once the turn has lasted a
\* millisecond more and the speaker is not in overtime, the next message or
\* the next firing of the interval charges the round overflow penalty.
C23_RoundLimitBoundary ==
  [][(/\ battleStates # 0
      /\ battleStates' = battleStates
      /\ states[battleStates].stage \in 1..9
      /\ ~states[battleStates].timers[CurrentTurn(states[battleStates])].isOvertime
      /\ SnapSend \/ ServerTimerTick) =>
       /\ (TurnElapsed = roundTimeLimit /\ SpeakerTotal <= totalTimeLimit) =>
            /\ SpeakerPenalty(states') = SpeakerPenalty(states)
            /\ "penalty_applied" \notin EventNames(out')
            /\ SnapSend =>
                 /\ states'[battleStates].stage = states[battleStates].stage + 1
                 /\ Len(states'[battleStates].discussionLog)
                      = Len(states[battleStates].discussionLog) + 1
       /\ TurnElapsed > roundTimeLimit =>
            /\ SpeakerPenalty(states') = SpeakerPenalty(states) + penaltyPoints
            /\ "penalty_applied" \in EventNames(out')]_vars

C25_RoomIdsAreUnique ==
  \A i, j \in 1..Len(rooms) : i # j => rooms[i].roomId # rooms[j].roomId

\* The userIds of the participants of the room object id, in order
ParticipantsOf(rs, id) ==
  LET i == FindIdx([n \in 1..Len(rs) |-> rs[n].id = id])
  IN IF i = 0 THEN <<>> ELSE [n \in 1..Len(rs[i].players) |-> rs[i].players[n].userId]

\* C26: join_room adds no participant to a room whose battleStarted is
\* set: a join_room that ends in a started room leaves the room's list of
\* participants as it was, also when battleStarted was set while the join's
\* profile lookup was in flight.
C26_NoJoinAfterBattleStart ==
  [][\A k \in 1..Len(calls) :
       (/\ calls[k].op = "join_room" /\ calls[k].pc = "await"
        /\ calls'[k].pc = "done"
        /\ RoomObject(L, calls[k].room) # 0
        /\ rooms[RoomObject(L, calls[k].room)].battleStarted)
       => ParticipantsOf(rooms', calls[k].room) = ParticipantsOf(rooms, calls[k].room)]_vars

\* C27: after every event no room holds two participants of one userId,
\* also when one user's join_room requests from two connections overlap.
C27_OneEntryPerUser ==
  \A i \in 1..Len(rooms) :
    \A m, n \in 1..Len(rooms[i].players) :
      m # n => rooms[i].players[m].userId # rooms[i].players[n].userId

\* C27: a join_room or join_discussion_room of a user who has an entry in
\* the room binds that entry to the connection and changes nothing else.
C27_RejoinRebindsConnection ==
  [][/\ \A k \in 1..Len(calls) :
          (/\ calls[k].op = "join_room" /\ calls[k].pc = "await"
           /\ calls'[k].pc = "done" /\ \E n \in 1..Len(out') : out'[n].ev = "room_update"
           /\ InSeq(ParticipantsOf(rooms, calls[k].room), calls[k].userId))
          => LET i == RoomObject(L, calls[k].room)
                 j == FindPlayer(rooms[i], calls[k].userId)
             IN rooms' = [rooms EXCEPT ![i].players[j].socketId = calls[k].socketId]
     /\ JoinDiscussionRoom =>
          \E i \in 1..Len(rooms) : \E j \in 1..Len(rooms[i].players) :
            \E socketId \in Sockets :
              rooms' = [rooms EXCEPT ![i].players[j].socketId = socketId]]_vars

\* Two join_room requests of u2 are in flight together: the later one,
\* from s3, has ended and made u2's entry; the earlier one, from s2, still
\* waits for its profile lookup.
C27_OverlappingJoinsOfOneUser ==
  /\ Len(calls) = 3 /\ calls[3].pc = "done"
  /\ calls[2].op = "join_room" /\ calls[2].pc = "await"
  /\ calls[2].userId = "u2" /\ calls[2].socketId = "s2" /\ calls[2].room = 1
  /\ Len(rooms) = 1 /\ rooms[1].id = 1 /\ Len(rooms[1].players) = 2
  /\ rooms[1].players[2].userId = "u2" /\ rooms[1].players[2].socketId = "s3"
  /\ rooms[1].players[2].id = 3

\* C28: after every event each room has at most one participant whose role
\* is referee, whatever create_room, join_room, select_role and leave_room
\* events admins and other users send.
C28_AtMostOneReferee ==
  \A i \in 1..Len(rooms) :
    \A m, n \in 1..Len(rooms[i].players) :
      (rooms[i].players[m].role = "referee" /\ rooms[i].players[n].role = "referee")
        => m = n

\* The participants of room r with role player that are ready
ReadyPlayers(r) ==
  SelectSeq(r.players, LAMBDA p : p.role = "player" /\ p.isReady)

\* The step is a player_ready that toggled a participant of the room
\* object id and left at least two ready participants of role player.
ReadyToggleStarts(id) ==
  LET i == RoomObject(L, id)
  IN /\ i # 0 /\ i <= Len(rooms') /\ rooms'[i].id = id
     /\ \E j \in 1..Len(rooms[i].players) :
          rooms'[i].players =
            [rooms[i].players EXCEPT ![j].isReady = ~rooms[i].players[j].isReady]
     /\ Len(ReadyPlayers(rooms'[i])) >= 2

C30_TokenBlocksUntilReleased ==
  [][\A socketId \in Sockets, op \in {"create_room", "join_room"} :
       /\ (Len(calls') > Len(calls) /\ calls'[Len(calls')].socketId = socketId
            /\ calls'[Len(calls')].op = op)
           => /\ <<socketId, op>> \notin processingRequests
              /\ <<socketId, op>> \in processingRequests'
              /\ [key |-> <<socketId, op>>, due |-> now + watchdogDelay] \in watchdogs'
       /\ (<<socketId, op>> \in processingRequests /\ <<socketId, op>> \notin processingRequests')
           => \/ \E k \in 1..Len(calls) :
                   /\ calls[k].socketId = socketId /\ calls[k].op = op
                   /\ calls[k].pc = "await" /\ calls'[k].pc = "done"
              \/ socketId \in connected \ connected'
              \/ \E t \in watchdogs : t.key = <<socketId, op>> /\ t.due <= now]_vars

\* C30: of two create_room (or two join_room) requests of one connection,
\* the second arriving while the first is in flight and less than 30 s
\* old, at most one is applied.
C30_OverlappingRequestsAppliedOnce ==
  \A k \in 1..Len(calls) :
    calls[k].overlaps # 0 => ~(calls[k].applied /\ calls[calls[k].overlaps].applied)

\* refereeId names a participant of the room whose role is referee.
RoomReferee(refereeId) ==
  InSeq(room.players, refereeId) /\ pl[refereeId].role = "referee"

\* The handler that ended in w changed no MatchState, emitted nothing and
\* started nothing.
NoEffect(w) ==
  /\ w.states = states /\ w.battleStates = battleStates
  /\ w.tasks = tasks /\ w.profiles = profiles /\ w.battles = battles
  /\ w.out = <<>>

\* C31: the five referee handlers change the MatchState and emit events
\* only when refereeId names a participant of the room whose role is
\* referee and the room has a MatchState; from anyone else penalty points,
\* timers, scores and stage stay as they are and nothing is emitted.
C31_RefereeActionsNeedReferee ==
  \A refereeId \in Users :
    ~(battleStates # 0 /\ RoomReferee(refereeId)) =>
      /\ \A targetUserId \in Users, points \in PointAmounts :
           /\ NoEffect(referee_add_points(W, targetUserId, points, refereeId))
           /\ NoEffect(referee_deduct_points(W, targetUserId, points, refereeId))
      /\ \A targetUserId \in Users, seconds \in SecondAmounts :
           /\ NoEffect(referee_extend_time(W, targetUserId, seconds, refereeId))
           /\ NoEffect(referee_reduce_time(W, targetUserId, seconds, refereeId))
      /\ \A scores \in HumanScores :
           NoEffect(referee_submit_scores(W, scores, refereeId))

\* The position of u after one and after two select_position events with
\* the same value
PositionAfterOne(u, position) == select_position(W, u, position).pl[u].position

PositionAfterTwo(u, position) ==
  select_position(select_position(W, u, position), u, position).pl[u].position

\* C32 as stated: for a player, two select_position events in a row with
\* the same value leave the position unset.
C32_TwiceLeavesUnset ==
  \A u \in Users, position \in Positions :
    (room.listed /\ InSeq(room.players, u) /\ pl[u].role = "player")
      => PositionAfterTwo(u, position) = Unset

\* C32, amended: for a player select_position with the position held
\* clears it and with another value takes that value, so two events in a
\* row with the same value leave the position unset when the player did not
\* hold that value, and leave the player holding it when it did;
\* select_position by a spectator or referee changes nothing.
C32_SelectPositionToggles ==
  \A u \in Users, position \in Positions :
    (room.listed /\ InSeq(room.players, u)) =>
      IF pl[u].role = "player"
        THEN IF pl[u].position = position
               THEN /\ PositionAfterOne(u, position) = Unset
                    /\ PositionAfterTwo(u, position) = position
               ELSE /\ PositionAfterOne(u, position) = position
                    /\ PositionAfterTwo(u, position) = Unset
        ELSE /\ select_position(W, u, position).pl = pl
             /\ select_position(W, u, position).room = room

\* A player who selected a position holds it, beside a referee, before the
\* battle has started.
C32_PlayerHoldsPosition ==
  /\ room.listed /\ ~room.battleStarted /\ detours = 1
  /\ \E u \in Users :
       InSeq(room.players, u) /\ pl[u].role = "player" /\ pl[u].position = "agree"
  /\ \E r \in Users : InSeq(room.players, r) /\ pl[r].role = "referee"

\* isReady of userId in the room roomId of the registry l
IsReadyIn(l, userId, roomId) ==
  LET r == l.rooms[FindRoom(l, roomId)]
  IN r.players[FindPlayer(r, userId)].isReady

\* C33: two player_ready events in a row of one user in one room, from the
\* same or from two connections of the user, each toggle isReady, so the
\* second restores the value before the first; neither is dropped by the
\* request deduper, which holds no player_ready token between events.
C33_PlayerReadyTwiceRestores ==
  /\ \A k \in processingRequests : k[2] # "player_ready"
  /\ \A x \in Logins, y \in Logins, roomId \in RoomIds :
       (x[2] = y[2] /\ FindPlayer(rooms[FindRoom(L, roomId)], x[2]) # 0) =>
         LET l1 == player_ready_event(L, x[1], x[2], roomId)
             l2 == player_ready_event(l1, y[1], y[2], roomId)
         IN /\ IsReadyIn(l1, x[2], roomId) = ~IsReadyIn(L, x[2], roomId)
            /\ IsReadyIn(l2, x[2], roomId) = IsReadyIn(L, x[2], roomId)
            /\ l1.out # <<>> /\ l2.out # l1.out
            /\ l2.processingRequests = processingRequests
            /\ \A n \in 1..Len(rooms[FindRoom(L, roomId)].players) :
                 l2.rooms[FindRoom(L, roomId)].players[n]
                   = rooms[FindRoom(L, roomId)].players[n]

\* The creator of a room, alone in it, sent player_ready twice and nothing
\* else: it is not ready again.
C33_ToggledTwice ==
  /\ Len(rooms) = 1 /\ Len(calls) = 1 /\ detours = 2
  /\ Len(rooms[1].players) = 1
  /\ ~rooms[1].players[1].isReady
  /\ out = <<LobbyEv("room_update", rooms[1].players[1].userId, rooms[1].id)>>

\* C34: join_discussion_room of a participant, sent again from the same or
\* from another connection of the user, binds the user's entry to the
\* connection of the latest event; the number of participants, every other
\* field of every entry and of the room, the deduper and the events emitted
\* are as if it had not been sent.
C34_JoinDiscussionRoomRebinds ==
  \A x \in Logins, y \in Logins, roomId \in RoomIds :
    LET i == FindRoom(L, roomId)
        j == FindPlayer(rooms[i], x[2])
        l1 == join_discussion_room(L, x[1], x[2], roomId)
        l2 == join_discussion_room(l1, y[1], y[2], roomId)
    IN (x[2] = y[2]) =>
         IF j = 0
           THEN l1 = L /\ l2 = L
           ELSE /\ l1 = [L EXCEPT !.rooms[i].players[j].socketId = x[1]]
                /\ l2 = [L EXCEPT !.rooms[i].players[j].socketId = y[1]]
                /\ Len(l2.rooms[i].players) = Len(rooms[i].players)

\* The admin u2, referee of the room it created and alone in it, was bound
\* to its other connection by join_discussion_room and then back.
C34_ReboundTwice ==
  /\ Len(rooms) = 1 /\ Len(calls) = 1 /\ detours = 2 /\ out = <<>>
  /\ Len(rooms[1].players) = 1
  /\ rooms[1].players[1].userId = "u2" /\ ~rooms[1].players[1].isReady
  /\ rooms[1].players[1].role = "referee"

\* The other position
Complement(position) == IF position = "agree" THEN "disagree" ELSE "agree"

\* What the missing positions of the two players p (added first) and q
\* are to become: a position one has chosen is kept and the other gets its
\* complement; when neither has chosen p is agree and q disagree.
Filled(before, after, p, q) ==
  /\ (before[p].position # Unset /\ before[q].position = Unset) =>
       /\ after[p].position = before[p].position
       /\ after[q].position = Complement(before[p].position)
  /\ (before[p].position = Unset /\ before[q].position # Unset) =>
       /\ after[q].position = before[q].position
       /\ after[p].position = Complement(before[q].position)
  /\ (before[p].position = Unset /\ before[q].position = Unset) =>
       after[p].position = "agree" /\ after[q].position = "disagree"

\* C35: the missing positions of the two players are completed as stated
\* when the match starts: while the timeout of discussion_view_ready is
\* pending a participant sends select_position, then the timeout runs
\* startBattleLogic; a position one player holds at that moment is kept and
\* the other gets the complement, and when neither holds one the first
\* added is agree and the second disagree.
C35_FallbackKeepsTheChoice ==
  \A u \in Users, position \in Positions :
    (room.listed /\ timeouts > 0 /\ battleStates = 0) =>
      LET w1 == select_position(W, u, position)
          w2 == startBattleLogic([w1 EXCEPT !.timeouts = @ - 1])
      IN \A p, q \in Users :
           (RolePlayers(w1) = <<p, q>> /\ Len(w2.states) = Len(w1.states) + 1)
             => Filled(w1.pl, w2.pl, p, q)

\* totalTimeUsed of the user u in the MatchStates sts
TotalUsed(sts, u) == sts[battleStates].timers[u].totalTimeUsed

\* The step is a send_message of the current speaker that was accepted:
\* the message is in the discussion log.
SpeakerMessageAccepted ==
  /\ battleStates # 0 /\ battleStates' = battleStates
  /\ states[battleStates].stage \in 1..9
  /\ SnapSend
  /\ Len(states'[battleStates].discussionLog)
       = Len(states[battleStates].discussionLog) + 1

\* C36: when a message of the current speaker is accepted e milliseconds
\* into the turn, the speaker's totalTimeUsed becomes its previous value
\* plus e and no other player's total changes; the total limit test made
\* at that moment compares the previous value plus e with totalTimeLimit:
\* a speaker within the round limit and not in overtime is charged the
\* overflow penalty exactly when previous + e exceeds totalTimeLimit.
C36_TurnTimeCountedOnce ==
  [][SpeakerMessageAccepted =>
       LET u == CurrentTurn(states[battleStates])
       IN /\ TotalUsed(states', u) = TotalUsed(states, u) + TurnElapsed
          /\ \A v \in DOMAIN states[battleStates].timers :
               v # u => TotalUsed(states', v) = TotalUsed(states, v)
          /\ (TurnElapsed <= roundTimeLimit
                /\ ~states[battleStates].timers[u].isOvertime) =>
               (SpeakerPenalty(states') = SpeakerPenalty(states) + penaltyPoints)
                 = (TotalUsed(states, u) + TurnElapsed > totalTimeLimit)]_vars

\* The MatchState objects whose interval has not been cleared
ActiveTickers == {i \in 1..Len(states) : states[i].serverTimerInterval.active}

\* C37: one ticker acts per match.  The interval of a MatchState object
\* that is not the one the room id points to (its match was torn down or
\* started again) does nothing when it fires but clear itself: no
\* overflow, no timer_update, no other event.
C37_OneTickerPerMatch ==
  \A i \in ActiveTickers :
    i # battleStates =>
      LET w1 == serverTimerTick(W, i)
      IN /\ w1.out = <<>>
         /\ w1.states = [states EXCEPT ![i].serverTimerInterval.active = FALSE]
         /\ w1.battleStates = battleStates /\ w1.tasks = tasks

\* The handler left w without a timer_update, a time penalty or a forfeit.
NoTimerEffect(w) ==
  /\ EventNames(w.out) \cap {"timer_update", "penalty_applied",
                             "overtime_granted", "battle_result"} = {}
  /\ w.battleStates = battleStates
  /\ w.states[battleStates].timers = states[battleStates].timers
  /\ w.tasks = tasks

\* C38: while the match is in phase 10 no turn timer runs: an interval
\* that fires broadcasts no timer_update and charges no overflow, and a
\* time_overflow event of a client charges no penalty and forfeits nothing.
C38_NoTurnTimerInPhaseTen ==
  (battleStates # 0 /\ states[battleStates].stage = 10) =>
    /\ \A i \in ActiveTickers : NoTimerEffect(serverTimerTick(W, i))
    /\ \A u \in Users, type \in {"round", "total", "overtime"} :
         NoTimerEffect(time_overflow(W, u, type))

\* By the server clock the budget of the user u is exceeded and the
\* overrun has not been charged: u is the speaker of the phase and its
\* round or total limit is exceeded while it is not in overtime, or its
\* overtime window is exhausted.
RealOverrun(u) ==
  LET s == states[battleStates]
      t == s.timers[u]
  IN /\ s.stage \in 1..9 /\ u = CurrentTurn(s)
     /\ s.currentTurnStartTime # Undef
     /\ \/ ~t.isOvertime /\ now - s.currentTurnStartTime > roundTimeLimit
        \/ ~t.isOvertime /\ t.totalTimeUsed + (now - s.currentTurnStartTime) > totalTimeLimit
        \/ t.isOvertime /\ t.overtimeStarted # Undef
             /\ now - t.overtimeStarted > overtimeLimit

\* C39: a time_overflow event of a client adds a penalty only for a real
\* overrun: when it names a user who is not the speaker of the phase or
\* has no timer, or arrives while the speaker is within budget or after
\* the overrun was charged, no timer changes, no penalty_applied is sent
\* and the match does not end.
C39_ClientOverflowNeedsRealOverrun ==
  battleStates # 0 =>
    \A u \in Users, type \in {"round", "total", "overtime"} :
      ~(u \in DOMAIN states[battleStates].timers /\ RealOverrun(u)) =>
        LET w1 == time_overflow(W, u, type)
        IN /\ w1.battleStates = battleStates
           /\ w1.states[battleStates].timers = states[battleStates].timers
           /\ "penalty_applied" \notin EventNames(w1.out)

\* C40: at the end of a match judged without a referee both debaters' new
\* ratings are computed from the two ratings they had before the match:
\* when the loser's update runs, after the winner's update was written from
\* the two pre-match ratings, the loser's new rating is
\* calculateEloRating(loser's pre-match rating, winner's pre-match rating,
\* lost).
C40_RatingsFromPreMatchRatings ==
  [][\A k \in 1..Len(tasks) :
       LET winner == tasks[k].winner
           loser == tasks[k].loser
       IN (/\ tasks[k].kind = "eval" /\ tasks[k].pc = "stats2"
           /\ k <= Len(tasks') /\ tasks'[k].pc = "save"
           /\ winner \in Users /\ loser \in Users
           /\ profiles[loser].rating = InitialRating(loser)
           /\ profiles[winner].rating
                = calculateEloRating(InitialRating(winner), InitialRating(loser), TRUE))
          => profiles'[loser].rating
               = calculateEloRating(InitialRating(loser), InitialRating(winner), FALSE)]_vars

====
